---- MODULE Spec2Model ----
(***************************************************************************)
(* Directory Indexer: the scanner (src/src/core/scanner.py), the tree      *)
(* builder (src/src/core/tree_builder.py), the mode decision of main       *)
(* (src/directory_indexer.py) and the two data-access backends of the      *)
(* generated viewer (DataService in                                        *)
(* src/Backups/directory_indexer_original.py).                             *)
(*                                                                         *)
(* Strings are sequences of one-character strings, so that split, join,    *)
(* SUBSTR, INSTR, LIKE and lower-casing are computed as the code computes  *)
(* them.                                                                   *)
(***************************************************************************)
EXTENDS Integers, Sequences, FiniteSets, TLC

VARIABLES
    \* ---- data pipeline: one ScanResult fed to both backends
    input,            \* files_data handed to build_tree / create_database
    idx,              \* number of records build_tree has processed
    tree,             \* the nested dict build_tree is filling
    db_files,         \* rows of the files table, in id order
    dpc,              \* "tree" | "db" | "ready" | "queried" | "idle"
    q_path,           \* argument of the last get_folder call
    q_inline,         \* its result from DataService._getFolderInline
    q_db,             \* its result from DataService._getFolderFromDB
    \* ---- scanning
    fs,               \* the filesystem below the root path (never changes)
    caller,           \* "main": the command line; "lib": DirectoryScanner used directly
    spc,              \* position of main / scan()
    walk,             \* os.walk: directories still to visit, the directory
                      \* yielded last and its filenames not yet processed
    files_data,       \* DirectoryScanner.files_data
    total_size,       \* DirectoryScanner.total_size
    error_count,      \* DirectoryScanner.error_count
    extension_stats,  \* DirectoryScanner.extension_stats
    result,           \* the ScanResult scan() returned, Null before
    raised,           \* the exception scan() raised, "none" otherwise
    exit_code,        \* sys.exit status of main, -1 while running
    artifacts,        \* what main has created on disk so far
    history,          \* the ScanResults this DirectoryScanner has returned, in order
    \* ---- mode decision and the two run_* functions of main
    file_count,       \* len(files_data) after the scan
    extdb,            \* args.extdb
    json,             \* args.json
    mpc,              \* position of main after the scan
    mode,             \* "database" | "json" | "undecided"
    printed,          \* messages printed so far, in order
    produced,         \* what the chosen run_* function has produced, in order
    status,           \* exit status of main after the scan, -1 while running
    response,         \* what input("Continue anyway? (y/n): ") returned
    \* ---- the viewer's DataService over a finished archive
    call,             \* the last DataService call: its name and arguments
    ret_inline,       \* what the in-memory backend returned for it
    ret_db,           \* what the relational backend returned for it
    \* ---- DatabaseManager.create_database
    store,            \* the file at db_path: Absent, or its committed content
    conn,             \* rows inserted on the open connection, not committed yet
    cpc,              \* position inside create_database, "idle" between calls
    runs,             \* calls of create_database that have returned
    removed,          \* times an existing file at db_path was deleted
    db_error,         \* the exception create_database raised, "none" otherwise
    batch_size        \* DatabaseConfig.BATCH_SIZE as _insert_files reads it

dataVars == <<input, idx, tree, db_files, dpc, q_path, q_inline, q_db>>

scanVars == <<fs, caller, spc, walk, files_data, total_size, error_count,
              extension_stats, result, raised, exit_code, artifacts, history>>

mainVars == <<file_count, extdb, json, mpc, mode, printed, produced, status,
              response>>

viewVars == <<call, ret_inline, ret_db>>

storeVars == <<store, conn, cpc, runs, removed, db_error, batch_size>>

vars == <<dataVars, scanVars, mainVars, viewVars, storeVars>>

-----------------------------------------------------------------------------
(* Strings *)

SLASH == "/"
DOT == "."

\* str.lower() / toLowerCase() / SQL LOWER() on the characters the model uses
LowerChar(c) ==
    CASE c = "A" -> "a"
      [] c = "B" -> "b"
      [] c = "T" -> "t"
      [] c = "X" -> "x"
      [] c = "Y" -> "y"
      [] OTHER -> c

Lower(s) == [i \in 1..Len(s) |-> LowerChar(s[i])]

\* Positions of character c in s
Positions(s, c) == {i \in 1..Len(s) : s[i] = c}

SetMax(S) == CHOOSE x \in S : \A y \in S : y <= x
SetMin(S) == CHOOSE x \in S : \A y \in S : x <= y

\* s.split(sep): the pieces between separators, empty pieces kept
RECURSIVE SplitOn(_, _)
SplitOn(s, c) ==
    IF Positions(s, c) = {} THEN <<s>>
    ELSE LET p == SetMin(Positions(s, c))
         IN  <<SubSeq(s, 1, p - 1)>> \o SplitOn(SubSeq(s, p + 1, Len(s)), c)

\* sep.join(parts)
RECURSIVE JoinWith(_, _)
JoinWith(parts, c) ==
    IF Len(parts) = 0 THEN <<>>
    ELSE IF Len(parts) = 1 THEN parts[1]
    ELSE parts[1] \o <<c>> \o JoinWith(Tail(parts), c)

SelectNonTrivial(p) == p # <<>> /\ p # <<DOT>>

\* pathlib: Path(s).parts for a relative POSIX path: empty and "." segments
\* are dropped
PathParts(s) == SelectSeq(SplitOn(s, SLASH), SelectNonTrivial)

\* pathlib: str(Path(*parts)); the empty path prints as "."
PathStr(parts) == IF Len(parts) = 0 THEN <<DOT>> ELSE JoinWith(parts, SLASH)

\* pathlib: PurePath.suffix
PathSuffix(name) ==
    LET dots == Positions(name, DOT)
    IN  IF dots = {} THEN <<>>
        ELSE LET i == SetMax(dots)
             IN  IF 1 < i /\ i < Len(name) THEN SubSeq(name, i, Len(name))
                 ELSE <<>>

NONE_EXT == <<"(", "n", "o", "n", "e", ")">>

\* the suffix with the case of the file name kept
ExtensionOf_CaseKept(name) ==
    IF PathSuffix(name) = <<>> THEN NONE_EXT ELSE PathSuffix(name)

\* scanner.py: extension = filepath.suffix.lower() or '(none)'
ExtensionOf(name) ==
    IF Lower(PathSuffix(name)) = <<>> THEN NONE_EXT ELSE Lower(PathSuffix(name))

\* scanner.py: the file_data dict _process_file builds for the file
\* `filename` in the directory whose path below the root has segments dirParts
FileData(dirParts, filename, size) ==
    [ name          |-> filename,
      relative_path |-> PathStr(dirParts \o <<filename>>),
      directory     |-> PathStr(dirParts),
      size_bytes    |-> size,
      extension     |-> ExtensionOf(filename) ]

-----------------------------------------------------------------------------
(* Bounds and input universe *)

MaxFiles == 3

Sizes == {1, 2}

FolderUniverse ==
    { <<>>, << <<"a">> >>, << <<"a">>, <<"b">> >>, << <<"b">> >>,
      << <<"A">>, <<"b">> >> }

FileNames == { <<"x", DOT, "T">>, <<"y">> }

RecordUniverse ==
    { FileData(d, f, s) : d \in FolderUniverse, f \in FileNames, s \in Sizes }

\* relative_path is unique per scan
DistinctPaths(seq) ==
    \A i, j \in 1..Len(seq) : i # j => seq[i].relative_path # seq[j].relative_path

RECURSIVE SeqsUpTo(_, _)
SeqsUpTo(S, n) ==
    IF n = 0 THEN { <<>> }
    ELSE LET shorter == SeqsUpTo(S, n - 1)
         IN  shorter \cup
             { Append(q, r) : q \in {p \in shorter : Len(p) = n - 1}, r \in S }

Inputs == { q \in SeqsUpTo(RecordUniverse, MaxFiles) : DistinctPaths(q) }

-----------------------------------------------------------------------------
(* tree_builder.py *)

NewFolder(part, prefix) ==
    [ name       |-> part,
      path       |-> PathStr(prefix),
      type       |-> "folder",
      children   |-> <<>>,
      keys       |-> <<>>,
      file_count |-> 0,
      total_size |-> 0,
      files      |-> <<>> ]

EmptyTree ==
    [ name       |-> <<"r">>,
      path       |-> <<>>,
      type       |-> "folder",
      children   |-> <<>>,
      keys       |-> <<>>,
      file_count |-> 0,
      total_size |-> 0,
      files      |-> <<>> ]

\* current['files'].append(file_info); current['file_count'] += 1; ...
AddFile(node, file_info) ==
    [node EXCEPT !.files = Append(@, file_info),
                 !.file_count = @ + 1,
                 !.total_size = @ + file_info.size_bytes]

\* tree['file_count'] += 1; tree['total_size'] += size (no append)
AddCounts(node, file_info) ==
    [node EXCEPT !.file_count = @ + 1,
                 !.total_size = @ + file_info.size_bytes]

\* the loop creating a fresh folder for every part, known or not
RECURSIVE Descend_AlwaysNew(_, _, _, _)
Descend_AlwaysNew(node, parts, i, file_info) ==
    IF i > Len(parts) - 1 THEN AddFile(node, file_info)
    ELSE LET part  == parts[i]
             known == part \in DOMAIN node.children
             child == NewFolder(part, SubSeq(parts, 1, i))
         IN  [node EXCEPT
                 !.children = (part :> Descend_AlwaysNew(child, parts, i + 1, file_info)) @@ @,
                 !.keys = IF known THEN @ ELSE Append(@, part)]

\* the navigate/create loop over parts[:-1] starting at index i with
\* `current` = node, followed by the append to the folder reached
RECURSIVE Descend(_, _, _, _)
Descend(node, parts, i, file_info) ==
    IF i > Len(parts) - 1 THEN AddFile(node, file_info)
    ELSE LET part  == parts[i]
             known == part \in DOMAIN node.children
             child == IF known THEN node.children[part]
                      ELSE NewFolder(part, SubSeq(parts, 1, i))
         IN  [node EXCEPT
                 !.children = (part :> Descend(child, parts, i + 1, file_info)) @@ @,
                 !.keys = IF known THEN @ ELSE Append(@, part)]

\* InsertFile without the update of the root's counts for a file in a subfolder
InsertFile_NoRootUpdate(t, file_info) ==
    LET parts == PathParts(file_info.relative_path)
    IN  IF Len(parts) = 1 THEN AddFile(t, file_info)
        ELSE Descend(t, parts, 1, file_info)

\* InsertFile appending a file of a subfolder to the root's list as well
InsertFile_ListedAtRoot(t, file_info) ==
    LET parts == PathParts(file_info.relative_path)
    IN  IF Len(parts) = 1 THEN AddFile(t, file_info)
        ELSE AddFile(Descend(t, parts, 1, file_info), file_info)

\* one iteration of `for file_info in files_data`
InsertFile(t, file_info) ==
    LET parts == PathParts(file_info.relative_path)
    IN  IF Len(parts) = 1 THEN AddFile(t, file_info)
        ELSE AddCounts(Descend(t, parts, 1, file_info), file_info)

-----------------------------------------------------------------------------
(* database.py: the files table *)

BATCH_SIZE == 1000

MinOf(a, b) == IF a < b THEN a ELSE b

\* the tuple _insert_files binds for one record; id is the AUTOINCREMENT key
\* of a fresh table
FileRow(f, id) ==
    [ id            |-> id,
      name          |-> f.name,
      relative_path |-> f.relative_path,
      directory     |-> f.directory,
      size_bytes    |-> f.size_bytes,
      extension     |-> f.extension ]

\* a batch that starts on the last record of the batch before it
InsertBatch_Overlap(rows, records, per_batch) ==
    LET i     == Len(rows)
        last  == MinOf(i + per_batch, Len(records))
        batch == SubSeq(records, IF i = 0 THEN 1 ELSE i, last)
    IN  rows \o [k \in 1..Len(batch) |-> FileRow(batch[k], i + k)]

\* one iteration of `for i in range(0, len(files_data), batch_size)`:
\* executemany over files_data[i:i + batch_size], i = rows inserted so far,
\* per_batch = batch_size
InsertBatch(rows, records, per_batch) ==
    LET i     == Len(rows)
        last  == MinOf(i + per_batch, Len(records))
        batch == SubSeq(records, i + 1, last)
    IN  rows \o [k \in 1..Len(batch) |-> FileRow(batch[k], i + k)]

-----------------------------------------------------------------------------
(* SQL helpers used by the relational backend *)

\* SQLite LIKE: % matches any run, _ one character, letters compare
\* case-insensitively
RECURSIVE Like(_, _)
Like(s, p) ==
    IF p = <<>> THEN s = <<>>
    ELSE IF Head(p) = "%" THEN Like(s, Tail(p)) \/ (s # <<>> /\ Like(Tail(s), p))
    ELSE IF Head(p) = "_" THEN s # <<>> /\ Like(Tail(s), Tail(p))
    ELSE s # <<>> /\ LowerChar(Head(s)) = LowerChar(Head(p)) /\ Like(Tail(s), Tail(p))

\* SUBSTR(s, start): from the 1-based position start to the end
SubstrFrom(s, start) == SubSeq(s, start, Len(s))

\* SUBSTR(s, start, n)
Substr(s, start, n) == SubSeq(s, start, MinOf(start + n - 1, Len(s)))

\* INSTR(s, c): first position of c in s, 0 when absent
Instr(s, c) == IF Positions(s, c) = {} THEN 0 ELSE SetMin(Positions(s, c))

\* byte order of the characters the model uses (ASCII)
CharCode(c) ==
    CASE c = "%" -> 37 [] c = "(" -> 40 [] c = ")" -> 41 [] c = "." -> 46
      [] c = "/" -> 47 [] c = "A" -> 65 [] c = "B" -> 66 [] c = "T" -> 84
      [] c = "X" -> 88 [] c = "Y" -> 89 [] c = "_" -> 95 [] c = "a" -> 97 [] c = "b" -> 98
      [] c = "c" -> 99 [] c = "e" -> 101 [] c = "n" -> 110 [] c = "o" -> 111
      [] c = "r" -> 114 [] c = "t" -> 116 [] c = "x" -> 120 [] c = "y" -> 121
      [] OTHER -> 127

\* BINARY collation: s sorts strictly before t
RECURSIVE StrLess(_, _)
StrLess(s, t) ==
    IF t = <<>> THEN FALSE
    ELSE IF s = <<>> THEN TRUE
    ELSE IF Head(s) = Head(t) THEN StrLess(Tail(s), Tail(t))
    ELSE CharCode(Head(s)) < CharCode(Head(t))

\* ORDER BY over a set of distinct strings
RECURSIVE SortedStrings(_)
SortedStrings(S) ==
    IF S = {} THEN <<>>
    ELSE LET m == CHOOSE x \in S : \A y \in S \ {x} : StrLess(x, y)
         IN  <<m>> \o SortedStrings(S \ {m})

RECURSIVE SumSizes(_)
SumSizes(rows) ==
    IF rows = <<>> THEN 0 ELSE Head(rows).size_bytes + SumSizes(Tail(rows))

SeqRange(seq) == {seq[i] : i \in 1..Len(seq)}

-----------------------------------------------------------------------------
(* DataService: get_folder in both backends *)

Null == [null |-> TRUE]

\* the loop `for (const part of parts) { node = node.children[part]; ... }`
RECURSIVE WalkParts(_, _)
WalkParts(node, parts) ==
    IF parts = <<>> THEN node
    ELSE IF Head(parts) \in DOMAIN node.children
         THEN WalkParts(node.children[Head(parts)], Tail(parts))
         ELSE Null

_getFolderInline(t, path) ==
    LET node == IF path # <<>> THEN WalkParts(t, SplitOn(path, SLASH)) ELSE t
    IN  IF node = Null THEN Null
        ELSE [ name      |-> node.name,
               path      |-> path,
               fileCount |-> node.file_count,
               totalSize |-> node.total_size,
               children  |-> node.keys,
               files     |-> node.files ]

IsDirectRow(r, path) == r.directory = path

\* children of the root: directory != '' AND directory NOT LIKE '%/%'
RootChildFolders(rows) ==
    SortedStrings({ r.directory : r \in
        { x \in SeqRange(rows) :
            x.directory # <<>> /\ ~Like(x.directory, <<"%", SLASH, "%">>) } })

\* the name column of the non-root child query for one row
ChildNameOf(directory, path) ==
    LET rest == SubstrFrom(directory, Len(path) + 2)
    IN  Substr(directory, Len(path) + 2,
               IF Instr(rest, SLASH) > 0 THEN Instr(rest, SLASH) - 1 ELSE Len(rest))

\* children below the root: WHERE directory LIKE ? || '/%', empty names dropped
NonRootChildFolders(rows, path) ==
    SortedStrings({ n \in
        { ChildNameOf(r.directory, path) : r \in
            { x \in SeqRange(rows) : Like(x.directory, path \o <<SLASH, "%">>) } }
        : n # <<>> })

_getFolderFromDB(rows, path) ==
    LET direct == SelectSeq(rows, LAMBDA r : IsDirectRow(r, path))
    IN  [ name      |-> IF path = <<>> THEN <<"r", "o", "o", "t">>
                        ELSE SplitOn(path, SLASH)[Len(SplitOn(path, SLASH))],
          path      |-> path,
          fileCount |-> Len(direct),
          totalSize |-> SumSizes(direct),
          children  |-> IF path = <<>> THEN RootChildFolders(rows)
                        ELSE NonRootChildFolders(rows, path),
          files     |-> <<>> ]

-----------------------------------------------------------------------------
(* The data pipeline: one ScanResult, both backends, then get_folder *)

QueryPaths ==
    { <<>>, <<"a">>, <<"a", SLASH, "b">>, <<"b">>, <<"A">>, <<"A", SLASH, "b">>,
      <<"c">> }

DataInit ==
    /\ input \in Inputs
    /\ idx = 0
    /\ tree = EmptyTree
    /\ db_files = <<>>
    /\ dpc = "tree"
    /\ q_path = <<>>
    /\ q_inline = Null
    /\ q_db = Null

\* build_tree: one iteration of the loop over files_data
BuildTreeStep ==
    /\ dpc = "tree"
    /\ idx < Len(input)
    /\ tree' = InsertFile(tree, input[idx + 1])
    /\ idx' = idx + 1
    /\ UNCHANGED <<input, db_files, dpc, q_path, q_inline, q_db>>
    /\ UNCHANGED <<scanVars, mainVars, viewVars, storeVars>>

\* build_tree: return tree
BuildTreeReturn ==
    /\ dpc = "tree"
    /\ idx = Len(input)
    /\ dpc' = "db"
    /\ UNCHANGED <<input, idx, tree, db_files, q_path, q_inline, q_db>>
    /\ UNCHANGED <<scanVars, mainVars, viewVars, storeVars>>

\* _insert_files: one batch
InsertFilesBatch ==
    /\ dpc = "db"
    /\ Len(db_files) < Len(input)
    /\ db_files' = InsertBatch(db_files, input, BATCH_SIZE)
    /\ UNCHANGED <<input, idx, tree, dpc, q_path, q_inline, q_db>>
    /\ UNCHANGED <<scanVars, mainVars, viewVars, storeVars>>

\* _insert_files: the range is exhausted
InsertFilesDone ==
    /\ dpc = "db"
    /\ Len(db_files) >= Len(input)
    /\ dpc' = "ready"
    /\ UNCHANGED <<input, idx, tree, db_files, q_path, q_inline, q_db>>
    /\ UNCHANGED <<scanVars, mainVars, viewVars, storeVars>>

\* DataService.getFolder(path), asked of both backends
GetFolder ==
    /\ dpc \in {"ready", "queried"}
    /\ \E p \in QueryPaths :
        /\ q_path' = p
        /\ q_inline' = _getFolderInline(tree, p)
        /\ q_db' = _getFolderFromDB(db_files, p)
    /\ dpc' = "queried"
    /\ UNCHANGED <<input, idx, tree, db_files>>
    /\ UNCHANGED <<scanVars, mainVars, viewVars, storeVars>>

DataNext ==
    \/ BuildTreeStep
    \/ BuildTreeReturn
    \/ InsertFilesBatch
    \/ InsertFilesDone
    \/ GetFolder

-----------------------------------------------------------------------------
(* Claims about the tree builder and get_folder *)

ChildNodes(node) == { node.children[k] : k \in DOMAIN node.children }

\* children are keyed by name, so two children with equal records are still
\* two children: sum over the keys, not over the set of records
RECURSIVE SumChildren(_, _, _)
SumChildren(node, ks, field) ==
    IF ks = {} THEN 0
    ELSE LET k == CHOOSE x \in ks : TRUE
         IN  node.children[k][field] + SumChildren(node, ks \ {k}, field)

RECURSIVE AggregatesHold(_)
AggregatesHold(node) ==
    /\ node.file_count =
         Len(node.files) + SumChildren(node, DOMAIN node.children, "file_count")
    /\ node.total_size =
         SumSizes(node.files) + SumChildren(node, DOMAIN node.children, "total_size")
    /\ \A c \in ChildNodes(node) : AggregatesHold(c)

\* C1: once build_tree has returned, every folder node has file_count equal to
\* its direct files plus its children's file_count, and total_size likewise.
C1_TreeAggregates == dpc # "tree" => AggregatesHold(tree)

\* C2: after each iteration of build_tree the root's file_count is the number
\* of records processed and its total_size the sum of their sizes; at the end
\* they are the scan totals.
C2_RootTotals ==
    /\ tree.file_count = idx
    /\ tree.total_size = SumSizes(SubSeq(input, 1, idx))
    /\ dpc # "tree" => /\ tree.file_count = Len(input)
                       /\ tree.total_size = SumSizes(input)

\* C2 witness: build_tree has returned for a list holding a file directly
\* under the root and a file in a subfolder.
C2_Witness ==
    /\ dpc # "tree"
    /\ \E i, j \in 1..Len(input) :
        /\ Len(PathParts(input[i].relative_path)) = 1
        /\ Len(PathParts(input[j].relative_path)) = 3
    /\ tree.file_count = Len(input)

\* C3: for every folder path present in the tree, get_folder of the in-memory
\* backend and of the relational backend report the same file_count and
\* total_size.
C3_FolderAggregatesAgree ==
    (dpc = "queried" /\ q_inline # Null) =>
        /\ q_inline.fileCount = q_db.fileCount
        /\ q_inline.totalSize = q_db.totalSize

\* C4: for every folder path present in the tree, the child folder names the
\* relational backend reconstructs are exactly the keys of the in-memory
\* node's children map.
C4_ChildFoldersAgree ==
    (dpc = "queried" /\ q_inline # Null) =>
        SeqRange(q_db.children) = SeqRange(q_inline.children)

\* the folders of the archive: the root and every directory on the way to a
\* record
FolderExists(records, path) ==
    \/ path = <<>>
    \/ \E i \in 1..Len(records) :
          LET parts == PathParts(records[i].relative_path)
              want  == SplitOn(path, SLASH)
          IN  /\ Len(want) < Len(parts)
              /\ \A k \in 1..Len(want) : parts[k] = want[k]

\* C13: get_folder on a path that is no folder of the archive returns null in
\* both backends (neither hands back a folder object for it).
C13_MissingFolderIsNull ==
    (dpc = "queried" /\ ~FolderExists(input, q_path)) =>
        /\ q_inline = Null
        /\ q_db = Null

-----------------------------------------------------------------------------
(* The filesystem the scanner walks *)

MaxScanFiles == 3

DirA == << <<"a">> >>
DirAB == << <<"a">>, <<"b">> >>
DirB == << <<"b">> >>
RootDir == <<>>

ScanDirs == { DirA, DirAB, DirB }

\* the places where the filesystem may hold a file: <<directory, filename>>
ScanSlots ==
    { <<RootDir, <<"x", DOT, "T">> >>, <<RootDir, <<"y">> >>,
      <<DirA, <<"y">> >>, <<DirAB, <<"x", DOT, "T">> >>, <<DirB, <<"y">> >> }

\* "dir": a directory that can be listed; "noperm": a directory whose listing
\* raises; "symlink": a symbolic link to a directory
DirKinds == {"absent", "dir", "noperm", "symlink"}

NoFile == [kind |-> "absent", stat_ok |-> FALSE, size |-> 0]

\* "file": a regular file; "symlink": a symbolic link to a file. stat_ok:
\* whether stat() on the path returns (for a link: on its target)
FileEntries ==
    { e \in [kind : {"file", "symlink"}, stat_ok : BOOLEAN, size : Sizes] :
        (~e.stat_ok \/ e.kind = "symlink") => e.size = 1 }

ParentOf(d) == SubSeq(d, 1, Len(d) - 1)

WellFormedFs(f) ==
    /\ f.root \in {"missing", "notdir"} =>
          /\ \A d \in ScanDirs : f.dirs[d] = "absent"
          /\ \A sl \in ScanSlots : f.files[sl] = NoFile
    /\ f.dirs[DirAB] # "absent" => f.dirs[DirA] # "absent"
    /\ f.dirs[DirB] \in {"absent", "dir"}
    /\ \A sl \in ScanSlots :
          (f.files[sl] # NoFile /\ sl[1] # RootDir) => f.dirs[sl[1]] # "absent"
    /\ Cardinality({sl \in ScanSlots : f.files[sl] # NoFile}) <= MaxScanFiles

FsUniverse ==
    { f \in [ root  : {"dir", "noperm", "missing", "notdir"},
              dirs  : [ScanDirs -> DirKinds],
              files : [ScanSlots -> FileEntries \cup {NoFile}] ] :
        WellFormedFs(f) }

DirKind(f, d) == IF d = RootDir THEN f.root ELSE f.dirs[d]

LastOf(seq) == seq[Len(seq)]

\* os.walk: the filenames of one directory. A link to a file, also a broken
\* one, is listed with the files (entry.is_dir() is false for it)
Filenames(f, d) ==
    SortedStrings({ sl[2] : sl \in {x \in ScanSlots : x[1] = d /\ f.files[x] # NoFile} })

\* os.walk: the subdirectories it descends into, followlinks=False: every
\* entry of dirnames that is not a symbolic link
WalkInto(f, d) ==
    LET subs  == { c \in ScanDirs :
                     ParentOf(c) = d /\ f.dirs[c] \in {"dir", "noperm"} }
        names == SortedStrings({ LastOf(c) : c \in subs })
    IN  [i \in 1..Len(names) |-> Append(d, names[i])]

-----------------------------------------------------------------------------
(* scanner.py *)

\* models.FileInfo as scan() fills it from a file_data dict
FileInfo(f) ==
    [ name |-> f.name, full_path |-> f.relative_path,
      size |-> f.size_bytes, extension |-> f.extension ]

\* self.extension_stats[extension]['count'] += 1; ...['size'] += size_bytes
\* on a defaultdict of {'count': 0, 'size': 0}
BumpExtension(stats, ext, size) ==
    LET old == IF ext \in DOMAIN stats THEN stats[ext] ELSE [count |-> 0, size |-> 0]
    IN  (ext :> [count |-> old.count + 1, size |-> old.size + size]) @@ stats

\* the except branch taken for every file: nothing is counted as an error
\* and the file is recorded with size 1
_process_file_NoExcept(sc, dirParts, filename, entry) ==
    [ file_data       |-> FileData(dirParts, filename, 1),
      total_size      |-> sc.total_size + 1,
      error_count     |-> sc.error_count,
      extension_stats |-> BumpExtension(sc.extension_stats, ExtensionOf(filename), 1) ]

\* total_size is updated before the extension statistics and the statistics
\* only count
_process_file_SizeNotInStats(sc, dirParts, filename, entry) ==
    IF entry.stat_ok
    THEN [ file_data       |-> FileData(dirParts, filename, entry.size),
           total_size      |-> sc.total_size + entry.size,
           error_count     |-> sc.error_count,
           extension_stats |->
               BumpExtension(sc.extension_stats, ExtensionOf(filename), 0) ]
    ELSE [ file_data       |-> Null,
           total_size      |-> sc.total_size,
           error_count     |-> sc.error_count + 1,
           extension_stats |-> sc.extension_stats ]

\* DirectoryScanner._process_file on the scanner fields sc: filepath.stat()
\* raises OSError exactly when the entry's stat_ok is false, and then only
\* error_count changes and None is returned
_process_file(sc, dirParts, filename, entry) ==
    IF entry.stat_ok
    THEN [ file_data       |-> FileData(dirParts, filename, entry.size),
           total_size      |-> sc.total_size + entry.size,
           error_count     |-> sc.error_count,
           extension_stats |->
               BumpExtension(sc.extension_stats, ExtensionOf(filename), entry.size) ]
    ELSE [ file_data       |-> Null,
           total_size      |-> sc.total_size,
           error_count     |-> sc.error_count + 1,
           extension_stats |-> sc.extension_stats ]

\* scan() without the is_dir() check
ScanCheck_NoDirCheck(rootKind) ==
    IF rootKind = "missing" THEN "FileNotFoundError" ELSE "none"

\* scan(): the two checks of self.root_path before the walk
ScanCheck(rootKind) ==
    IF rootKind = "missing" THEN "FileNotFoundError"
    ELSE IF rootKind = "notdir" THEN "NotADirectoryError"
    ELSE "none"

\* main(): the validation of args.directory; the exit status, -1 to go on
MainCheck(rootKind) ==
    IF rootKind = "missing" THEN 1
    ELSE IF rootKind = "notdir" THEN 1
    ELSE -1

ScanInit ==
    /\ fs \in FsUniverse
    /\ caller \in {"main", "lib"}
    /\ spc = IF caller = "main" THEN "validate" ELSE "scan"
    /\ walk = [stack |-> <<>>, dir |-> RootDir, files |-> <<>>]
    /\ files_data = <<>>
    /\ total_size = 0
    /\ error_count = 0
    /\ extension_stats = <<>>
    /\ result = Null
    /\ raised = "none"
    /\ exit_code = -1
    /\ artifacts = {}
    /\ history = <<>>

\* main(): `if not Path(root_path).exists()` / `is_dir()`: print and exit(1)
MainValidate ==
    /\ caller = "main"
    /\ spc = "validate"
    /\ IF MainCheck(fs.root) # -1
       THEN /\ exit_code' = MainCheck(fs.root)
            /\ spc' = "exit"
       ELSE /\ spc' = "output"
            /\ UNCHANGED exit_code
    /\ UNCHANGED <<fs, caller, walk, files_data, total_size, error_count,
                   extension_stats, result, raised, artifacts>>
    /\ UNCHANGED history
    /\ UNCHANGED <<dataVars, mainVars, viewVars, storeVars>>

\* main(): determine_output_path, which creates the output subfolder unless
\* an absolute output path was given; then DirectoryScanner(root_path)
MainDetermineOutput ==
    /\ caller = "main"
    /\ spc = "output"
    /\ \E absolute_output \in BOOLEAN :
          artifacts' = IF absolute_output THEN artifacts
                       ELSE artifacts \cup {"output_dir"}
    /\ spc' = "scan"
    /\ UNCHANGED <<fs, caller, walk, files_data, total_size, error_count,
                   extension_stats, result, raised, exit_code>>
    /\ UNCHANGED history
    /\ UNCHANGED <<dataVars, mainVars, viewVars, storeVars>>

\* scan(): the checks of the root path; on failure the exception leaves
\* scan(), and main's except clause prints it and exits with status 1
ScanStart ==
    /\ spc = "scan"
    /\ IF ScanCheck(fs.root) # "none"
       THEN /\ raised' = ScanCheck(fs.root)
            /\ spc' = IF caller = "main" THEN "exit" ELSE "raised"
            /\ exit_code' = IF caller = "main" THEN 1 ELSE exit_code
            /\ UNCHANGED walk
       ELSE /\ walk' = [stack |-> <<RootDir>>, dir |-> RootDir, files |-> <<>>]
            /\ spc' = "walk"
            /\ UNCHANGED <<raised, exit_code>>
    /\ UNCHANGED <<fs, caller, files_data, total_size, error_count,
                   extension_stats, result, artifacts>>
    /\ UNCHANGED history
    /\ UNCHANGED <<dataVars, mainVars, viewVars, storeVars>>

\* os.walk resumed after the files of the last directory: the next directory
\* is listed; when scandir raises, os.walk (onerror=None) drops the directory
\* and its subtree and yields nothing for it
WalkNextDir ==
    /\ spc = "walk"
    /\ walk.files = <<>>
    /\ walk.stack # <<>>
    /\ LET d == Head(walk.stack)
       IN  walk' = IF DirKind(fs, d) = "dir"
                   THEN [ stack |-> WalkInto(fs, d) \o Tail(walk.stack),
                          dir   |-> d,
                          files |-> Filenames(fs, d) ]
                   ELSE [ stack |-> Tail(walk.stack), dir |-> walk.dir,
                          files |-> <<>> ]
    /\ UNCHANGED <<fs, caller, spc, files_data, total_size, error_count,
                   extension_stats, result, raised, exit_code, artifacts>>
    /\ UNCHANGED history
    /\ UNCHANGED <<dataVars, mainVars, viewVars, storeVars>>

\* one iteration of `for filename in filenames`
ProcessFile ==
    /\ spc = "walk"
    /\ walk.files # <<>>
    /\ LET filename == Head(walk.files)
           r == _process_file(
                    [ total_size |-> total_size, error_count |-> error_count,
                      extension_stats |-> extension_stats ],
                    walk.dir, filename, fs.files[<<walk.dir, filename>>])
       IN  /\ files_data' = IF r.file_data # Null
                            THEN Append(files_data, r.file_data)
                            ELSE files_data
           /\ total_size' = r.total_size
           /\ error_count' = r.error_count
           /\ extension_stats' = r.extension_stats
    /\ walk' = [walk EXCEPT !.files = Tail(@)]
    /\ UNCHANGED <<fs, caller, spc, result, raised, exit_code, artifacts>>
    /\ UNCHANGED history
    /\ UNCHANGED <<dataVars, mainVars, viewVars, storeVars>>

\* scan(): os.walk is exhausted; the ScanResult is built and returned
ScanReturn ==
    /\ spc = "walk"
    /\ walk.files = <<>>
    /\ walk.stack = <<>>
    /\ result' = [ files_data      |-> [i \in 1..Len(files_data) |->
                                           FileInfo(files_data[i])],
                   total_size      |-> total_size,
                   extension_stats |-> extension_stats ]
    /\ spc' = "done"
    /\ UNCHANGED <<fs, caller, walk, files_data, total_size, error_count,
                   extension_stats, raised, exit_code, artifacts>>
    /\ history' = Append(history, result')
    /\ UNCHANGED <<dataVars, mainVars, viewVars, storeVars>>

\* main(): `if len(files_data) == 0: ... sys.exit(0)`, else on to the mode
\* decision
MainAfterScan ==
    /\ caller = "main"
    /\ spc = "done"
    /\ IF Len(files_data) = 0
       THEN /\ exit_code' = 0
            /\ spc' = "exit"
       ELSE /\ spc' = "mode"
            /\ UNCHANGED exit_code
    /\ UNCHANGED <<fs, caller, walk, files_data, total_size, error_count,
                   extension_stats, result, raised, artifacts>>
    /\ UNCHANGED history
    /\ UNCHANGED <<dataVars, mainVars, viewVars, storeVars>>

MaxScans == 2

\* scan() is called again on the same DirectoryScanner: nothing between the
\* entry of scan() and os.walk touches files_data, total_size, error_count or
\* extension_stats, which __init__ alone sets
ScanAgain ==
    /\ caller = "lib"
    /\ spc = "done"
    /\ Len(history) < MaxScans
    /\ spc' = "scan"
    /\ UNCHANGED <<fs, caller, walk, files_data, total_size, error_count,
                   extension_stats, result, raised, exit_code, artifacts,
                   history>>
    /\ UNCHANGED <<dataVars, mainVars, viewVars, storeVars>>

ScanNext ==
    \/ MainValidate
    \/ MainDetermineOutput
    \/ ScanStart
    \/ WalkNextDir
    \/ ProcessFile
    \/ ScanReturn
    \/ MainAfterScan

\* a library caller that keeps the scanner and calls scan() again
RescanInit ==
    /\ ScanInit
    /\ caller = "lib"

RescanNext ==
    \/ ScanStart
    \/ WalkNextDir
    \/ ProcessFile
    \/ ScanReturn
    \/ ScanAgain

-----------------------------------------------------------------------------
(* Claims about the scanner *)

\* os.walk calls scandir on d: every directory above it was listed
RECURSIVE Reached(_, _)
Reached(f, d) ==
    IF d = RootDir THEN TRUE
    ELSE /\ f.dirs[d] \in {"dir", "noperm"}
         /\ DirKind(f, ParentOf(d)) = "dir"
         /\ Reached(f, ParentOf(d))

IsPrefix(d, e) == Len(d) <= Len(e) /\ \A i \in 1..Len(d) : e[i] = d[i]

Present(f) == { sl \in ScanSlots : f.files[sl] # NoFile }

\* files whose directory the walk reaches and can list
Visited(f) == { sl \in Present(f) : Reached(f, sl[1]) /\ DirKind(f, sl[1]) = "dir" }

\* directories the walk tries to list and cannot
Unopenable(f) ==
    { d \in ScanDirs \cup {RootDir} : Reached(f, d) /\ DirKind(f, d) = "noperm" }

\* no directory on the way to d is a symbolic link
RECURSIVE NoLinkAbove(_, _)
NoLinkAbove(f, d) ==
    IF d = RootDir THEN TRUE
    ELSE f.dirs[d] # "symlink" /\ NoLinkAbove(f, ParentOf(d))

\* the files of the directory tree proper
InTree(f) == { sl \in Present(f) : NoLinkAbove(f, sl[1]) }

SlotPath(sl) == PathStr(Append(sl[1], sl[2]))

RecordedPaths == { files_data[i].relative_path : i \in 1..Len(files_data) }

RECURSIVE SumField(_, _)
SumField(seq, field) ==
    IF seq = <<>> THEN 0 ELSE Head(seq)[field] + SumField(Tail(seq), field)

WithExtension(seq, e) == SelectSeq(seq, LAMBDA r : r.extension = e)

AggregatesOf(seq, sizeField, total, stats) ==
    /\ total = SumField(seq, sizeField)
    /\ \A i \in 1..Len(seq) : seq[i].extension \in DOMAIN stats
    /\ \A e \in DOMAIN stats :
          /\ stats[e].count = Len(WithExtension(seq, e))
          /\ stats[e].count > 0
          /\ stats[e].size = SumField(WithExtension(seq, e), sizeField)

\* C5: after every processed file, and in the ScanResult returned, total_size
\* is the sum of the sizes of the records and extension_stats holds, for
\* exactly the extensions that have a record, their number and summed size.
C5_ScanAggregates ==
    /\ spc \in {"walk", "done", "mode", "exit"} =>
          AggregatesOf(files_data, "size_bytes", total_size, extension_stats)
    /\ result # Null =>
          AggregatesOf(result.files_data, "size", result.total_size,
                       result.extension_stats)

\* C5 witness: a completed scan that skipped a file and returned two records
\* with the same extension.
C5_Witness ==
    /\ spc = "done"
    /\ error_count >= 1
    /\ \E e \in DOMAIN extension_stats : extension_stats[e].count = 2
    /\ result # Null

\* C6 as stated: with N files of the tree whose stat succeeds and M whose stat
\* fails, scan returns exactly N records and error_count is at least M.
C6_AllTreeFilesCounted ==
    spc = "done" =>
        /\ Len(files_data) = Cardinality({sl \in InTree(fs) : fs.files[sl].stat_ok})
        /\ error_count >= Cardinality({sl \in InTree(fs) : ~fs.files[sl].stat_ok})

\* C6 amended: of the files in directories the scan can list, scan returns one
\* record for each of the N whose stat succeeds and none for the M whose stat
\* fails, error_count is at least M, and a failure does not end the scan.
C6_ScanCompleteness ==
    spc = "done" =>
        /\ RecordedPaths = { SlotPath(sl) : sl \in {x \in Visited(fs) : fs.files[x].stat_ok} }
        /\ Len(files_data) = Cardinality({sl \in Visited(fs) : fs.files[sl].stat_ok})
        /\ error_count >= Cardinality({sl \in Visited(fs) : ~fs.files[sl].stat_ok})

\* C6 witness: a completed scan in which a file of the root failed, a later
\* file of the root was recorded, and an unlistable directory holds a file.
C6_Witness ==
    /\ spc = "done"
    /\ ~fs.files[<<RootDir, <<"x", DOT, "T">> >>].stat_ok
    /\ fs.files[<<RootDir, <<"x", DOT, "T">> >>] # NoFile
    /\ <<"y">> \in RecordedPaths
    /\ error_count = 1
    /\ \E sl \in Present(fs) : sl \notin Visited(fs) /\ sl \in InTree(fs)

\* C7: every directory the scan cannot open contributes no record, is counted
\* in the scanner's skip counter, and the files of the other directories are
\* still recorded.
C7_SkippedDirsCounted ==
    spc = "done" =>
        /\ \A sl \in Present(fs) :
              (\E d \in Unopenable(fs) : IsPrefix(d, sl[1]))
                  => SlotPath(sl) \notin RecordedPaths
        /\ \A sl \in Visited(fs) : fs.files[sl].stat_ok => SlotPath(sl) \in RecordedPaths
        /\ error_count >= Cardinality(Unopenable(fs))
                          + Cardinality({sl \in Visited(fs) : ~fs.files[sl].stat_ok})

\* the part of C7 the scanner does satisfy
SkippedSubtreesAndSiblings ==
    spc = "done" =>
        /\ \A sl \in Present(fs) :
              (\E d \in Unopenable(fs) : IsPrefix(d, sl[1]))
                  => SlotPath(sl) \notin RecordedPaths
        /\ \A sl \in Visited(fs) : fs.files[sl].stat_ok => SlotPath(sl) \in RecordedPaths

\* C8: no record of a completed scan is a symbolic link, and none is a file
\* reached only through a symbolic link.
C8_NoSymlinkRecords ==
    spc = "done" =>
        \A sl \in Present(fs) :
            (fs.files[sl].kind = "symlink" \/ ~NoLinkAbove(fs, sl[1]))
                => SlotPath(sl) \notin RecordedPaths

\* the part of C8 the scanner does satisfy
NoRecordThroughLinkedDir ==
    spc = "done" =>
        \A sl \in Present(fs) : ~NoLinkAbove(fs, sl[1]) => SlotPath(sl) \notin RecordedPaths

\* C9: with a root path that does not exist scan raises FileNotFoundError,
\* with one that is not a directory NotADirectoryError; nothing is processed,
\* the scanner's fields keep their initial values, and main exits with
\* status 1 having created nothing.
C9_BadRootFails ==
    fs.root \in {"missing", "notdir"} =>
        /\ files_data = <<>> /\ total_size = 0 /\ error_count = 0
        /\ extension_stats = <<>> /\ result = Null
        /\ artifacts = {}
        /\ spc \in {"validate", "scan", "raised", "exit"}
        /\ spc = "raised" =>
              raised = IF fs.root = "missing" THEN "FileNotFoundError"
                       ELSE "NotADirectoryError"
        /\ spc = "exit" => exit_code = 1

\* C9 witness: scan() has raised NotADirectoryError.
C9_Witness ==
    /\ fs.root = "notdir"
    /\ spc = "raised"
    /\ raised = "NotADirectoryError"

\* C22: a second scan() on the same DirectoryScanner over the unchanged
\* filesystem returns a ScanResult equal to the first: as many records, the
\* same total_size, the same extension_stats, nothing doubled or carried over.
C22_RescanEquivalent ==
    Len(history) >= 2 =>
        /\ Len(history[2].files_data) = Len(history[1].files_data)
        /\ history[2].total_size = history[1].total_size
        /\ history[2].extension_stats = history[1].extension_stats

UpperChars == {"A", "B", "T", "X", "Y"}

IsLowercase(str) == \A i \in 1..Len(str) : str[i] \notin UpperChars

\* the name ends with `ext` up to the case of letters, `ext` starts at a dot
\* that is not the first character of the name and holds no other dot
IsLoweredSuffixOf(ext, name) ==
    /\ Len(ext) >= 2 /\ Len(ext) < Len(name)
    /\ ext[1] = DOT
    /\ \A i \in 2..Len(ext) : ext[i] # DOT
    /\ \A i \in 1..Len(ext) :
          ext[i] = LowerChar(name[Len(name) - Len(ext) + i])

\* the last dot of the name, if any, is its first or its last character
HasNoSuffix(name) ==
    \A i \in 2..(Len(name) - 1) :
        name[i] = DOT => \E j \in (i + 1)..Len(name) : name[j] = DOT

\* C23: every record of the scanner has a non-empty, lowercase extension:
\* the lowercased suffix of its name from the last dot on, or '(none)' when
\* the name has no suffix; extension_stats is keyed by exactly these values.
C23_ExtensionLowercase ==
    /\ \A i \in 1..Len(files_data) :
          LET f == files_data[i]
          IN  /\ f.extension # <<>>
              /\ IsLowercase(f.extension)
              /\ IF HasNoSuffix(f.name)
                 THEN f.extension = NONE_EXT
                 ELSE IsLoweredSuffixOf(f.extension, f.name)
              /\ f.extension \in DOMAIN extension_stats
    /\ DOMAIN extension_stats =
          { files_data[i].extension : i \in 1..Len(files_data) }

\* C23 witness: a scan has returned with a file named x.T recorded under .t
\* and a file without suffix recorded under (none).
C23_Witness ==
    /\ spc = "done"
    /\ \E i, j \in 1..Len(files_data) :
          /\ files_data[i].name = <<"x", DOT, "T">>
          /\ files_data[i].extension = <<DOT, "t">>
          /\ files_data[j].name = <<"y">>
          /\ files_data[j].extension = NONE_EXT
    /\ DOMAIN extension_stats = { <<DOT, "t">>, NONE_EXT }

-----------------------------------------------------------------------------
(* DataService: list_entries (getFiles) in both backends *)

\* String.prototype.includes
Contains(str, q) ==
    \E i \in 1..(Len(str) - Len(q) + 1) : SubSeq(str, i, i + Len(q) - 1) = q

\* a JavaScript value read from an entry: a string, a number, or undefined
StringVal(str) == [kind |-> "string", str |-> str, num |-> 0]
NumberVal(n) == [kind |-> "number", str |-> <<>>, num |-> n]
Undefined == [kind |-> "undefined", str |-> <<>>, num |-> 0]

\* a[column]; for the size column a.size_bytes || a.totalSize || 0
ColumnValue(a, column) ==
    IF column \in {"size_bytes", "size"}
    THEN IF "size_bytes" \in DOMAIN a /\ a.size_bytes # 0 THEN NumberVal(a.size_bytes)
         ELSE IF "totalSize" \in DOMAIN a /\ a.totalSize # 0 THEN NumberVal(a.totalSize)
         ELSE NumberVal(0)
    ELSE IF column \in DOMAIN a THEN StringVal(a[column])
    ELSE Undefined

\* valA < valB in JavaScript: undefined converts to NaN and compares false
JsLess(valA, valB) ==
    IF valA.kind = "string" /\ valB.kind = "string" THEN StrLess(valA.str, valB.str)
    ELSE IF valA.kind = "number" /\ valB.kind = "number" THEN valA.num < valB.num
    ELSE FALSE

TypeError == 2

IsFolderEntry(a) ==
    \/ ("type" \in DOMAIN a /\ a.type = "folder")
    \/ "children" \in DOMAIN a
    \/ "fileCount" \in DOMAIN a

\* the comparator answering "a first" for two entries that tie
compareWithFoldersFirst_TiesBackward(a, b, column, ascending, foldersFirst) ==
    IF foldersFirst /\ IsFolderEntry(a) /\ ~IsFolderEntry(b) THEN -1
    ELSE IF foldersFirst /\ ~IsFolderEntry(a) /\ IsFolderEntry(b) THEN 1
    ELSE LET rawA == ColumnValue(a, column)
             rawB == ColumnValue(b, column)
         IN  IF rawA.kind = "string" /\ rawB.kind # "string" THEN TypeError
             ELSE LET valA == IF rawA.kind = "string" THEN StringVal(Lower(rawA.str))
                              ELSE rawA
                      valB == IF rawA.kind = "string" THEN StringVal(Lower(rawB.str))
                              ELSE rawB
                  IN  IF JsLess(valA, valB) THEN (IF ascending THEN -1 ELSE 1)
                      ELSE IF JsLess(valB, valA) THEN (IF ascending THEN 1 ELSE -1)
                      ELSE -1

\* compareWithFoldersFirst(a, b, column, ascending, foldersFirst): -1, 0, 1,
\* or TypeError when valB.toLowerCase() is called on a value that is no string
compareWithFoldersFirst(a, b, column, ascending, foldersFirst) ==
    IF foldersFirst /\ IsFolderEntry(a) /\ ~IsFolderEntry(b) THEN -1
    ELSE IF foldersFirst /\ ~IsFolderEntry(a) /\ IsFolderEntry(b) THEN 1
    ELSE LET rawA == ColumnValue(a, column)
             rawB == ColumnValue(b, column)
         IN  IF rawA.kind = "string" /\ rawB.kind # "string" THEN TypeError
             ELSE LET valA == IF rawA.kind = "string" THEN StringVal(Lower(rawA.str))
                              ELSE rawA
                      valB == IF rawA.kind = "string" THEN StringVal(Lower(rawB.str))
                              ELSE rawB
                  IN  IF JsLess(valA, valB) THEN (IF ascending THEN -1 ELSE 1)
                      ELSE IF JsLess(valB, valA) THEN (IF ascending THEN 1 ELSE -1)
                      ELSE 0

\* Array.prototype.sort hands the comparator two elements in an order the
\* engine chooses: the later element first (V8) or the earlier one first
Engines == {"later_first", "earlier_first"}

Thrown == [thrown |-> "TypeError"]

\* the comparator's verdict on (earlier, later) as the engine asks for it:
\* positive when the later element must move in front of the earlier one
OutOfOrder(earlier, later, sort, engine) ==
    IF engine = "later_first"
    THEN LET c == compareWithFoldersFirst(later, earlier, sort.column, sort.ascending, FALSE)
         IN  IF c = TypeError THEN TypeError ELSE IF c < 0 THEN 1 ELSE 0
    ELSE LET c == compareWithFoldersFirst(earlier, later, sort.column, sort.ascending, FALSE)
         IN  IF c = TypeError THEN TypeError ELSE IF c > 0 THEN 1 ELSE 0

\* the comparator throws on some pair the engine hands it
SortThrows(items, sort, engine) ==
    \E i, j \in 1..Len(items) :
        i < j /\ OutOfOrder(items[i], items[j], sort, engine) = TypeError

\* at input positions i and j, the element at i ends up in front
Precedes(items, i, j, sort, engine) ==
    IF i < j THEN OutOfOrder(items[i], items[j], sort, engine) = 0
    ELSE OutOfOrder(items[j], items[i], sort, engine) = 1

\* the stable order (ECMAScript 2019): an element is preceded by those that
\* compare smaller and by the earlier ones that compare equal
StableOrder(items, sort, engine) ==
    [k \in 1..Len(items) |->
        items[CHOOSE i \in 1..Len(items) :
                Cardinality({ j \in 1..Len(items) \ {i} :
                                Precedes(items, j, i, sort, engine) }) = k - 1]]

\* items.sort((a, b) => compareWithFoldersFirst(a, b, column, ascending, false)):
\* the sorted array, or the exception the comparator threw
_sortItems(items, sort, engine) ==
    CHOOSE r \in
        { IF SortThrows(v, sort, engine) THEN [thrown |-> TRUE, seq |-> <<>>]
          ELSE [thrown |-> FALSE, seq |-> StableOrder(v, sort, engine)] :
          v \in {items} } : TRUE

\* combined.slice(offset, offset + limit)
Slice(seq, from, to) == SubSeq(seq, from + 1, MinOf(to, Len(seq)))

\* `${path}/${name}`, or name alone below the root
ChildPath(path, name) == IF path # <<>> THEN path \o <<SLASH>> \o name ELSE name

\* total = combined.length and the page combined.slice(offset, offset + limit)
Page(combined, opts) ==
    [ items |-> Slice(combined, opts.offset, opts.offset + opts.limit),
      total |-> Len(combined) ]

\* [...folders, ...files].sort(...) when foldersFirst is off
Merged(both, opts, engine) ==
    CHOOSE r \in
        { IF sorted.thrown THEN Thrown ELSE Page(sorted.seq, opts) :
          sorted \in {_sortItems(both, opts.sort, engine)} } : TRUE

\* the combination with the files put in front of the folders
CombineAndPage_FilesFirst(folders, files, opts, engine) ==
    CHOOSE r \in
        { IF sFolders.thrown \/ sFiles.thrown THEN Thrown
          ELSE IF opts.sort.foldersFirst THEN Page(sFiles.seq \o sFolders.seq, opts)
          ELSE Merged(sFolders.seq \o sFiles.seq, opts, engine) :
          sFolders \in {_sortItems(folders, opts.sort, engine)},
          sFiles \in {_sortItems(files, opts.sort, engine)} } : TRUE

\* the filters, the two sorts, the combination and the page, common to both
\* backends once folders and files are fetched
CombineAndPage(folders, files, opts, engine) ==
    CHOOSE r \in
        { IF sFolders.thrown \/ sFiles.thrown THEN Thrown
          ELSE IF opts.sort.foldersFirst THEN Page(sFolders.seq \o sFiles.seq, opts)
          ELSE Merged(sFolders.seq \o sFiles.seq, opts, engine) :
          sFolders \in {_sortItems(folders, opts.sort, engine)},
          sFiles \in {_sortItems(files, opts.sort, engine)} } : TRUE

FileMatches(f, search) ==
    search = <<>> \/ Contains(Lower(f.name), Lower(search))
                  \/ Contains(Lower(f.extension), Lower(search))

FolderMatches(f, search) ==
    search = <<>> \/ Contains(Lower(f.name), Lower(search))

_getFilesInline(t, path, opts, engine) ==
    LET folder == _getFolderInline(t, path)
    IN  IF folder = Null THEN [items |-> <<>>, total |-> 0]
        ELSE LET files == SelectSeq(folder.files, LAMBDA f : FileMatches(f, opts.search))
                 all   == [i \in 1..Len(folder.children) |->
                             LET name  == folder.children[i]
                                 child == _getFolderInline(t, ChildPath(path, name))
                             IN  [ type      |-> "folder",
                                   name      |-> name,
                                   fileCount |-> child.fileCount,
                                   totalSize |-> child.totalSize,
                                   path      |-> ChildPath(path, name) ]]
                 folders == SelectSeq(all, LAMBDA f : FolderMatches(f, opts.search))
             IN  CombineAndPage(folders, files, opts, engine)

\* LOWER(name) LIKE '%' + search.toLowerCase() + '%'
SearchPattern(search) == <<"%">> \o Lower(search) \o <<"%">>

FileItem(r) ==
    [ type       |-> "file",
      name       |-> r.name,
      extension  |-> r.extension,
      directory  |-> r.directory,
      size_bytes |-> r.size_bytes ]

\* the catch block of _getFilesFromDB turns an exception into an empty page
_getFilesFromDB(rows, path, opts, engine) ==
    LET hit(r) == /\ r.directory = path
                  /\ opts.search # <<>> =>
                        \/ Like(Lower(r.name), SearchPattern(opts.search))
                        \/ Like(Lower(r.extension), SearchPattern(opts.search))
        picked == SelectSeq(rows, hit)
        items  == [i \in 1..Len(picked) |-> FileItem(picked[i])]
        folder == _getFolderFromDB(rows, path)
        all    == [i \in 1..Len(folder.children) |->
                     LET name  == folder.children[i]
                         child == _getFolderFromDB(rows, ChildPath(path, name))
                     IN  [ type      |-> "folder",
                           name      |-> name,
                           path      |-> ChildPath(path, name),
                           fileCount |-> child.fileCount,
                           totalSize |-> child.totalSize ]]
        folders == SelectSeq(all, LAMBDA f : FolderMatches(f, opts.search))
        page    == CombineAndPage(folders, items, opts, engine)
    IN  IF page = Thrown THEN [items |-> <<>>, total |-> 0] ELSE page

-----------------------------------------------------------------------------
(* DataService: search_global in both backends *)

SEARCH_CAP == 1000

FOLDER_SEARCH_LIMIT == 200

\* searchNode(node, currentPath): the matching files of the node, then for
\* each child its own match followed by the matches below it
RECURSIVE searchNode(_, _, _)
RECURSIVE searchChildren(_, _, _, _)
searchNode(node, currentPath, queryLower) ==
    LET hits  == SelectSeq(node.files, LAMBDA f :
                     \/ Contains(Lower(f.name), queryLower)
                     \/ Contains(Lower(f.extension), queryLower))
        files == [i \in 1..Len(hits) |->
                    [ type          |-> "file",
                      name          |-> hits[i].name,
                      relative_path |-> hits[i].relative_path,
                      directory     |-> hits[i].directory,
                      size_bytes    |-> hits[i].size_bytes,
                      extension     |-> hits[i].extension,
                      path          |-> currentPath ]]
    IN  files \o searchChildren(node, 1, currentPath, queryLower)

searchChildren(node, k, currentPath, queryLower) ==
    IF k > Len(node.keys) THEN <<>>
    ELSE LET name      == node.keys[k]
             child     == node.children[name]
             childPath == ChildPath(currentPath, name)
             own       == IF Contains(Lower(name), queryLower)
                          THEN << [ type      |-> "folder",
                                    name      |-> name,
                                    path      |-> childPath,
                                    fileCount |-> child.file_count,
                                    totalSize |-> child.total_size ] >>
                          ELSE <<>>
         IN  own \o searchNode(child, childPath, queryLower)
                 \o searchChildren(node, k + 1, currentPath, queryLower)

_searchInline(t, query) ==
    Slice(searchNode(t, <<>>, Lower(query)), 0, SEARCH_CAP)

\* ORDER BY directory, name over distinct rows
RowBefore(r, q) ==
    \/ StrLess(r.directory, q.directory)
    \/ (r.directory = q.directory /\ StrLess(r.name, q.name))

RECURSIVE OrderedRows(_)
OrderedRows(S) ==
    IF S = {} THEN <<>>
    ELSE LET m == CHOOSE x \in S : \A y \in S \ {x} : RowBefore(x, y)
         IN  <<m>> \o OrderedRows(S \ {m})

\* row[0].split('/').pop() || row[0]
LastSegment(directory) ==
    LET parts == SplitOn(directory, SLASH)
    IN  IF parts[Len(parts)] # <<>> THEN parts[Len(parts)] ELSE directory

\* row[0].split('/').slice(0, -1).join('/')
ParentPath(directory) ==
    LET parts == SplitOn(directory, SLASH)
    IN  JoinWith(SubSeq(parts, 1, Len(parts) - 1), SLASH)

_searchDB(rows, query) ==
    LET pattern == SearchPattern(query)
        hits    == { r \in SeqRange(rows) :
                       \/ Like(Lower(r.name), pattern)
                       \/ Like(Lower(r.extension), pattern) }
        sorted  == Slice(OrderedRows(hits), 0, SEARCH_CAP)
        files   == [i \in 1..Len(sorted) |-> FileItem(sorted[i])]
        dirs    == Slice(SortedStrings({ r.directory : r \in
                       { x \in SeqRange(rows) : Like(Lower(x.directory), pattern) } }),
                         0, FOLDER_SEARCH_LIMIT)
        folders == [i \in 1..Len(dirs) |->
                      LET group == SelectSeq(rows, LAMBDA r : r.directory = dirs[i])
                      IN  [ type      |-> "folder",
                            name      |-> LastSegment(dirs[i]),
                            path      |-> dirs[i],
                            directory |-> ParentPath(dirs[i]),
                            fileCount |-> Len(group),
                            totalSize |-> SumSizes(group) ]]
    IN  Slice(files \o folders, 0, SEARCH_CAP)

-----------------------------------------------------------------------------
(* The viewer: a DataService of each backend over one finished archive *)

\* build_tree(files_data)
RECURSIVE BuildTree(_, _)
BuildTree(t, records) ==
    IF records = <<>> THEN t
    ELSE BuildTree(InsertFile(t, Head(records)), Tail(records))

\* _insert_files(files_data) on the empty table
RECURSIVE InsertFiles(_, _)
InsertFiles(rows, records) ==
    IF Len(rows) >= Len(records) THEN rows
    ELSE InsertFiles(InsertBatch(rows, records, BATCH_SIZE), records)

\* the archives the viewer is opened on: what a scan returns. os.walk is
\* top-down, so the files of one directory are adjacent and a directory's own
\* files come before those of the directories below it.
MaxViewFiles == 3

ViewFolders ==
    { <<>>, << <<"a">> >>, << <<"a">>, <<"b">> >>, << <<"A">>, <<"b">> >> }

ViewRecords ==
    { FileData(d, f, sz) : d \in ViewFolders, f \in FileNames, sz \in Sizes }

DirParts(r) == PathParts(r.directory)

ProperPrefix(p, q) == Len(p) < Len(q) /\ SubSeq(q, 1, Len(p)) = p

InWalkOrder(q) ==
    /\ \A i, k \in 1..Len(q) :
          (i < k /\ q[i].directory = q[k].directory) =>
              \A j \in i..k : q[j].directory = q[i].directory
    /\ \A i, j \in 1..Len(q) :
          ProperPrefix(DirParts(q[j]), DirParts(q[i])) => j < i

ViewInputs ==
    { q \in SeqsUpTo(ViewRecords, MaxViewFiles) : DistinctPaths(q) /\ InWalkOrder(q) }

ListPaths == { <<>>, <<"a">>, <<"A">> }

Columns == {"name", "size", "extension"}

Searches == { <<>>, <<"B">>, <<"x">> }

\* 1000 is the default limit of getFiles
DEFAULT_LIMIT == 1000

\* (limit, offset)
Pages == { <<DEFAULT_LIMIT, 0>>, <<1, 0>>, <<1, 1>>, <<2, 1>> }

Options(column, ascending, foldersFirst, search, page) ==
    [ sort   |-> [ column       |-> column,
                   ascending    |-> ascending,
                   foldersFirst |-> foldersFirst ],
      search |-> search,
      limit  |-> page[1],
      offset |-> page[2] ]

\* the options asked for: every sort on the whole unfiltered listing, and
\* every filter and page under the default sort column
ListOptions ==
    { Options(c, asc, ff, <<>>, <<DEFAULT_LIMIT, 0>>) :
        c \in Columns, asc \in BOOLEAN, ff \in BOOLEAN }
    \cup
    { Options("name", TRUE, ff, srch, page) :
        ff \in BOOLEAN, srch \in Searches, page \in Pages }

Queries == { <<"a">>, <<"B">>, <<"x">>, <<DOT>>, <<"a", SLASH>> }

NoCall == [op |-> "none"]

ViewInit ==
    /\ input \in ViewInputs
    /\ idx = Len(input)
    /\ tree = BuildTree(EmptyTree, input)
    /\ db_files = InsertFiles(<<>>, input)
    /\ dpc = "view"
    /\ q_path = <<>>
    /\ q_inline = Null
    /\ q_db = Null
    /\ call = NoCall
    /\ ret_inline = Null
    /\ ret_db = Null

\* DataService.getFiles(path, options), asked of both backends
GetFiles ==
    /\ dpc = "view"
    /\ \E path \in ListPaths, opts \in ListOptions, engine \in Engines :
          /\ call' = [op |-> "getFiles", path |-> path, opts |-> opts]
          /\ ret_inline' = _getFilesInline(tree, path, opts, engine)
          /\ ret_db' = _getFilesFromDB(db_files, path, opts, engine)
    /\ dpc' = "answered"
    /\ UNCHANGED <<input, idx, tree, db_files, q_path, q_inline, q_db>>
    /\ UNCHANGED <<scanVars, mainVars, storeVars>>

\* DataService.searchGlobal(query), asked of both backends
SearchGlobal ==
    /\ dpc = "view"
    /\ \E query \in Queries :
          /\ call' = [op |-> "searchGlobal", query |-> query]
          /\ ret_inline' = _searchInline(tree, query)
          /\ ret_db' = _searchDB(db_files, query)
    /\ dpc' = "answered"
    /\ UNCHANGED <<input, idx, tree, db_files, q_path, q_inline, q_db>>
    /\ UNCHANGED <<scanVars, mainVars, storeVars>>

\* the controller has rendered the result; the next call can be made
Render ==
    /\ dpc = "answered"
    /\ dpc' = "view"
    /\ call' = NoCall
    /\ ret_inline' = Null
    /\ ret_db' = Null
    /\ UNCHANGED <<input, idx, tree, db_files, q_path, q_inline, q_db>>
    /\ UNCHANGED <<scanVars, mainVars, storeVars>>

ViewNext ==
    \/ GetFiles
    \/ SearchGlobal
    \/ Render

-----------------------------------------------------------------------------
(* Claims about list_entries and search_global *)

EmptyPage == [items |-> <<>>, total |-> 0]

\* C14: list_entries on a path that is no folder of the archive returns no
\* items and total 0 in both backends, whatever the options.
C14_MissingFolderListsNothing ==
    (call.op = "getFiles" /\ ~FolderExists(input, call.path)) =>
        /\ ret_inline = EmptyPage
        /\ ret_db = EmptyPage

IsFolderItem(e) == "type" \in DOMAIN e /\ e.type = "folder"

\* the column order of two entries, as the listing is documented: names and
\* extensions without regard to case, the size column by total folder size or
\* file size; an entry without the column ties with every entry
KeyLess(e1, e2, column) ==
    CASE column = "name" -> StrLess(Lower(e1.name), Lower(e2.name))
      [] column = "size" ->
            (IF IsFolderItem(e1) THEN e1.totalSize ELSE e1.size_bytes)
              < (IF IsFolderItem(e2) THEN e2.totalSize ELSE e2.size_bytes)
      [] column = "extension" ->
            /\ ~IsFolderItem(e1) /\ ~IsFolderItem(e2)
            /\ StrLess(Lower(e1.extension), Lower(e2.extension))

\* e1 may stand in front of e2
MayPrecede(e1, e2, sort) ==
    IF sort.ascending THEN ~KeyLess(e2, e1, sort.column)
    ELSE ~KeyLess(e1, e2, sort.column)

FoldersLead(items) ==
    \A i, j \in 1..Len(items) :
        (IsFolderItem(items[j]) /\ ~IsFolderItem(items[i])) => j < i

OrderedWithinGroups(items, sort) ==
    \A i, j \in 1..Len(items) :
        (i < j /\ IsFolderItem(items[i]) = IsFolderItem(items[j])) =>
            MayPrecede(items[i], items[j], sort)

\* C15: with folders_first, every folder entry of the listing stands before
\* every file entry, for every column and direction, and the folders among
\* themselves and the files among themselves are in column order.
C15_FoldersFirst ==
    (call.op = "getFiles" /\ call.opts.sort.foldersFirst) =>
        /\ ret_inline # Thrown
        /\ FoldersLead(ret_inline.items)
        /\ OrderedWithinGroups(ret_inline.items, call.opts.sort)
        /\ FoldersLead(ret_db.items)
        /\ OrderedWithinGroups(ret_db.items, call.opts.sort)

\* C15 witness: 'a' holds the folder b and the files x.T and y; listed by name,
\* descending, folders first: b stays in front although it sorts last.
C15_Witness ==
    /\ call.op = "getFiles" /\ call.path = <<"a">>
    /\ call.opts.sort = [column |-> "name", ascending |-> FALSE, foldersFirst |-> TRUE]
    /\ call.opts.search = <<>>
    /\ ret_inline # Thrown
    /\ ret_inline.total = 3
    /\ Len(ret_inline.items) = 3
    /\ ret_inline.items[1].name = <<"b">> /\ IsFolderItem(ret_inline.items[1])
    /\ ret_inline.items[2].name = <<"y">>
    /\ ret_inline.items[3].name = <<"x", DOT, "T">>
    /\ Len(ret_db.items) = 3
    /\ ret_db.items[1].name = <<"b">> /\ IsFolderItem(ret_db.items[1])

OrderedThroughout(items, sort) ==
    \A i, j \in 1..Len(items) : i < j => MayPrecede(items[i], items[j], sort)

\* entries that tie stay as they came: folders before files
TiesKeepInputOrder(items, sort) ==
    \A i, j \in 1..Len(items) :
        (/\ IsFolderItem(items[j]) /\ ~IsFolderItem(items[i])
         /\ MayPrecede(items[j], items[i], sort)
         /\ MayPrecede(items[i], items[j], sort)) => j < i

\* C16: without folders_first the call returns one merged sequence in column
\* order (case-insensitive strings, folder size for folders, direction as
\* asked), no entry placed against that order, ties in input order.
C16_MergedOrder ==
    (call.op = "getFiles" /\ ~call.opts.sort.foldersFirst) =>
        /\ ret_inline # Thrown
        /\ OrderedThroughout(ret_inline.items, call.opts.sort)
        /\ TiesKeepInputOrder(ret_inline.items, call.opts.sort)
        /\ OrderedThroughout(ret_db.items, call.opts.sort)
        /\ TiesKeepInputOrder(ret_db.items, call.opts.sort)

\* the whole listing of the call's folder, unfiltered
AllEntries(backend) ==
    LET opts == Options("name", TRUE, TRUE, <<>>, <<DEFAULT_LIMIT, 0>>)
    IN  IF backend = "inline"
        THEN _getFilesInline(tree, call.path, opts, "earlier_first").items
        ELSE _getFilesFromDB(db_files, call.path, opts, "earlier_first").items

\* the entry passes the search filter: the name, or a file's extension,
\* contains the search text, case ignored
PassesFilter(e, search) ==
    \/ search = <<>>
    \/ Contains(Lower(e.name), Lower(search))
    \/ (~IsFolderItem(e) /\ Contains(Lower(e.extension), Lower(search)))

FilteredCount(backend) ==
    Cardinality({ i \in 1..Len(AllEntries(backend)) :
                    PassesFilter(AllEntries(backend)[i], call.opts.search) })

\* the same call with the default limit and offset 0
WholeSequence(backend, engine) ==
    LET opts == [call.opts EXCEPT !.limit = DEFAULT_LIMIT, !.offset = 0]
    IN  IF backend = "inline" THEN _getFilesInline(tree, call.path, opts, engine)
        ELSE _getFilesFromDB(db_files, call.path, opts, engine)

IsPageOf(ret, backend) ==
    /\ ret # Thrown
    /\ ret.total = FilteredCount(backend)
    /\ Len(ret.items) <= call.opts.limit
    /\ \E engine \in Engines :
          LET whole == WholeSequence(backend, engine)
          IN  /\ whole # Thrown
              /\ Len(whole.items) = FilteredCount(backend)
              /\ ret.items = SubSeq(whole.items, call.opts.offset + 1,
                                    MinOf(call.opts.offset + call.opts.limit,
                                          Len(whole.items)))

\* C17: the total is the number of entries passing the filter, whatever limit
\* and offset are, and the items are the positions offset .. offset+limit-1 of
\* the filtered, sorted sequence.
C17_TotalAndPage ==
    call.op = "getFiles" =>
        /\ IsPageOf(ret_inline, "inline")
        /\ IsPageOf(ret_db, "db")

\* '.' is how a record names the root directory
RootAsEmpty(p) == IF p = <<DOT>> THEN <<>> ELSE p

CarriedPaths(m) == { RootAsEmpty(m[f]) : f \in DOMAIN m \cap {"path", "directory"} }

CarriesContainer(m) ==
    IF m.type = "folder" THEN ParentPath(m.path) \in CarriedPaths(m)
    ELSE \E i \in 1..Len(input) :
            /\ input[i].name = m.name
            /\ input[i].size_bytes = m.size_bytes
            /\ RootAsEmpty(input[i].directory) \in CarriedPaths(m)

WellTagged(matches) ==
    \A i \in 1..Len(matches) :
        /\ "type" \in DOMAIN matches[i]
        /\ matches[i].type \in {"file", "folder"}
        /\ CarriesContainer(matches[i])

\* C18: search_global returns at most 1000 matches in both backends, and each
\* match carries its type and the path of the folder that contains it.
C18_SearchCapAndTags ==
    call.op = "searchGlobal" =>
        /\ Len(ret_inline) <= 1000
        /\ Len(ret_db) <= 1000
        /\ WellTagged(ret_inline)
        /\ WellTagged(ret_db)

\* the paths of all folders of the archive, at every depth
AllFolderPaths ==
    UNION { { JoinWith(SubSeq(PathParts(input[i].relative_path), 1, n), SLASH) :
                n \in 1..(Len(PathParts(input[i].relative_path)) - 1) } :
            i \in 1..Len(input) }

FolderMatchPaths(matches) ==
    { matches[i].path : i \in { k \in 1..Len(matches) : matches[k].type = "folder" } }

\* C19: the folder matches of search_global are exactly the folders, at any
\* depth, whose own name contains the query without regard to case, and they
\* are the same in both backends.
C19_FolderMatches ==
    call.op = "searchGlobal" =>
        LET expected == { p \in AllFolderPaths :
                            Contains(Lower(LastSegment(p)), Lower(call.query)) }
        IN  /\ FolderMatchPaths(ret_inline) = expected
            /\ FolderMatchPaths(ret_db) = expected

\* sorting `items` again returns `items`
SortKeeps(items, sort, engine) ==
    _sortItems(items, sort, engine) = [thrown |-> FALSE, seq |-> items]

\* the listing the in-memory backend returned is what it returns again for
\* the same call, and its sorted parts are fixed points of the sort
SortedAgainUnchanged(engine) ==
    LET again   == _getFilesInline(tree, call.path, call.opts, engine)
        items   == ret_inline.items
        folders == SelectSeq(items, IsFolderItem)
        files   == SelectSeq(items, LAMBDA e : ~IsFolderItem(e))
    IN  (again = ret_inline /\ ret_inline # Thrown) =>
            /\ SortKeeps(folders, call.opts.sort, engine)
            /\ SortKeeps(files, call.opts.sort, engine)
            /\ ~call.opts.sort.foldersFirst => SortKeeps(items, call.opts.sort, engine)

-----------------------------------------------------------------------------
(* database.py: create_database *)

\* the schema without the indexes for hierarchical queries and search
SCHEMA_SixIndexes ==
    [ tables  |-> {"files", "metadata", "extension_stats"},
      indexes |-> {"idx_extension", "idx_size", "idx_modified", "idx_created",
                   "idx_name", "idx_directory"} ]

\* CREATE INDEX <name> ON files(<columns>)
INDEX_ON ==
    [ idx_extension       |-> <<"extension">>,
      idx_size            |-> <<"size_bytes">>,
      idx_modified        |-> <<"modified">>,
      idx_created         |-> <<"created">>,
      idx_name            |-> <<"name">>,
      idx_directory       |-> <<"directory">>,
      idx_directory_name  |-> <<"directory", "name">>,
      idx_name_lower      |-> <<"LOWER(name)">>,
      idx_directory_lower |-> <<"LOWER(directory)">> ]

\* the tables and indexes _create_schema creates
SCHEMA ==
    [ tables  |-> {"files", "metadata", "extension_stats"},
      indexes |-> {"idx_extension", "idx_size", "idx_modified", "idx_created",
                   "idx_name", "idx_directory", "idx_directory_name",
                   "idx_name_lower", "idx_directory_lower"} ]

Absent == [exists |-> FALSE]

\* a database file holding the schema and no rows
EmptyStore ==
    [ exists          |-> TRUE,
      schema          |-> SCHEMA,
      files           |-> <<>>,
      metadata        |-> <<>>,
      extension_stats |-> <<>> ]

NoConnection == [open |-> FALSE]

DIGITS == <<"0", "1", "2", "3", "4", "5", "6", "7", "8", "9">>

\* str(n) for a non-negative int
RECURSIVE Str(_)
Str(n) ==
    IF n < 10 THEN <<DIGITS[n + 1]>>
    ELSE Append(Str(n \div 10), DIGITS[(n % 10) + 1])

\* str(root_path): the same directory in every run
ROOT_PATH == <<SLASH, "r">>

\* _insert_metadata with the total_files row left out
MetadataRows_NoTotalFiles(records, total, root, now) ==
    [ total_size     |-> Str(total),
      root_path      |-> root,
      generated_date |-> now ]

\* the rows _insert_metadata inserts: key |-> value, the numbers as text;
\* generated_date is the clock reading, its formatting left aside
MetadataRows(records, total, root, now) ==
    [ total_files    |-> Str(Len(records)),
      total_size     |-> Str(total),
      root_path      |-> root,
      generated_date |-> now ]

\* extension_stats as the scan accumulates it over files_data
RECURSIVE StatsOf(_)
StatsOf(records) ==
    IF records = <<>> THEN <<>>
    ELSE BumpExtension(StatsOf(SubSeq(records, 1, Len(records) - 1)),
                       records[Len(records)].extension,
                       records[Len(records)].size_bytes)

\* what a run over another archive left at db_path
StaleStore ==
    LET old == << FileData(<< <<"b">> >>, <<"y">>, 2), FileData(<<>>, <<"y">>, 1) >>
    IN  [EmptyStore EXCEPT
            !.files = InsertFiles(<<>>, old),
            !.metadata = MetadataRows(old, 3, ROOT_PATH, 0),
            !.extension_stats = StatsOf(old)]

\* a file at db_path that no database wrote
Garbage == [exists |-> TRUE, schema |-> [tables |-> {}, indexes |-> {}]]

PriorStores == {Absent, StaleStore, Garbage}

MaxRuns == 2

\* datetime.now() at the moment of the run
Clock == {1, 2}

\* create_database with the old file left in place
RemoveExisting_Keep(file) == file

\* if os.path.exists(self.db_path): os.remove(self.db_path)
RemoveExisting(file) == Absent

DbInit ==
    /\ input \in ViewInputs
    /\ idx = 0
    /\ tree = EmptyTree
    /\ db_files = <<>>
    /\ dpc = "idle"
    /\ q_path = <<>>
    /\ q_inline = Null
    /\ q_db = Null
    /\ store \in PriorStores
    /\ conn = NoConnection
    /\ cpc = "idle"
    /\ runs = 0
    /\ removed = 0
    /\ db_error = "none"
    /\ batch_size = BATCH_SIZE

\* create_database is called: an existing file at db_path is removed
CreateRemove ==
    /\ cpc = "idle"
    /\ db_error = "none"
    /\ runs < MaxRuns
    /\ store' = RemoveExisting(store)
    /\ removed' = IF store.exists THEN removed + 1 ELSE removed
    /\ cpc' = "schema"
    /\ UNCHANGED <<conn, runs, db_error, batch_size>>
    /\ UNCHANGED <<dataVars, scanVars, mainVars, viewVars>>

\* sqlite3.connect and _create_schema: each CREATE statement is committed as
\* it runs; on a file that already holds the tables, or is no database, the
\* first CREATE TABLE raises
CreateSchema ==
    /\ cpc = "schema"
    /\ IF store.exists
       THEN /\ db_error' = IF "files" \in store.schema.tables
                           THEN "OperationalError" ELSE "DatabaseError"
            /\ cpc' = "idle"
            /\ UNCHANGED <<store, conn>>
       ELSE /\ store' = EmptyStore
            /\ conn' = [ open            |-> TRUE,
                         files           |-> <<>>,
                         metadata        |-> <<>>,
                         extension_stats |-> <<>> ]
            /\ cpc' = "metadata"
            /\ UNCHANGED db_error
    /\ UNCHANGED <<runs, removed, batch_size>>
    /\ UNCHANGED <<dataVars, scanVars, mainVars, viewVars>>

\* _insert_metadata, total_size being the scan's total over files_data
InsertMetadata ==
    /\ cpc = "metadata"
    /\ \E now \in Clock :
          conn' = [conn EXCEPT !.metadata =
                      MetadataRows(input, SumSizes(input), ROOT_PATH, now)]
    /\ cpc' = "extension_stats"
    /\ UNCHANGED <<store, runs, removed, db_error, batch_size>>
    /\ UNCHANGED <<dataVars, scanVars, mainVars, viewVars>>

\* _insert_extension_stats: one row per key of the dict
InsertExtensionStats ==
    /\ cpc = "extension_stats"
    /\ conn' = [conn EXCEPT !.extension_stats = StatsOf(input)]
    /\ cpc' = "files"
    /\ UNCHANGED <<store, runs, removed, db_error, batch_size>>
    /\ UNCHANGED <<dataVars, scanVars, mainVars, viewVars>>

\* _insert_files: one batch
InsertFilesStep ==
    /\ cpc = "files"
    /\ Len(conn.files) < Len(input)
    /\ conn' = [conn EXCEPT !.files = InsertBatch(@, input, batch_size)]
    /\ UNCHANGED <<store, cpc, runs, removed, db_error, batch_size>>
    /\ UNCHANGED <<dataVars, scanVars, mainVars, viewVars>>

\* conn.commit(); conn.close(); return db_size
CommitAndClose ==
    /\ cpc = "files"
    /\ Len(conn.files) >= Len(input)
    /\ store' = [store EXCEPT !.files = conn.files,
                              !.metadata = conn.metadata,
                              !.extension_stats = conn.extension_stats]
    /\ conn' = NoConnection
    /\ cpc' = "idle"
    /\ runs' = runs + 1
    /\ UNCHANGED <<removed, db_error, batch_size>>
    /\ UNCHANGED <<dataVars, scanVars, mainVars, viewVars>>

DbNext ==
    \/ CreateRemove
    \/ CreateSchema
    \/ InsertMetadata
    \/ InsertExtensionStats
    \/ InsertFilesStep
    \/ CommitAndClose

-----------------------------------------------------------------------------
(* Claims about create_database *)

\* the rows one run over the input writes: ids from 1 in input order
RowsOfOneRun ==
    [k \in 1..Len(input) |-> FileRow(input[k], k)]

\* C20: create_database removes what is at the target path first, so after
\* every run, the first over any earlier file and the second over the
\* first's, the store holds the schema, the files rows and the
\* extension_stats rows of one run: none survives, none is doubled.
C20_CreateIdempotent ==
    /\ db_error = "none"
    /\ cpc \notin {"idle", "schema"} => store = EmptyStore
    /\ (cpc = "idle" /\ runs >= 1) =>
          /\ store.exists
          /\ store.schema = SCHEMA
          /\ store.files = RowsOfOneRun
          /\ store.extension_stats = StatsOf(input)
          /\ \A e \in DOMAIN store.extension_stats :
                store.extension_stats[e].count =
                    Cardinality({ k \in 1..Len(input) : input[k].extension = e })

\* C20 witness: two runs over three records have returned, each after
\* deleting the file it found.
C20_Witness ==
    /\ cpc = "idle" /\ runs = 2 /\ removed = 2
    /\ Len(input) = 3
    /\ Len(store.files) = 3
    /\ store.files[3].id = 3

-----------------------------------------------------------------------------
(* directory_indexer.py: main after the scan, run_json_mode, run_database_mode *)

FILE_COUNT_THRESHOLD == 150000

\* len(files_data) of a scan that found files (main exits before on 0)
FileCounts == {1, 149999, 150000, 150001, 199999, 200000, 200001, 250000}

\* the decision with >= in place of >
UseDatabase_AtThreshold(count, force_db, force_json) ==
    force_db \/ (count >= FILE_COUNT_THRESHOLD /\ ~force_json)

\* use_database = args.extdb or (file_count > THRESHOLD and not args.json)
UseDatabase(count, force_db, force_json) ==
    force_db \/ (count > FILE_COUNT_THRESHOLD /\ ~force_json)

\* str.strip(): leading and trailing blanks removed
IsBlank(c) == c = " "

RECURSIVE Strip(_)
Strip(s) ==
    IF s = <<>> THEN <<>>
    ELSE IF IsBlank(Head(s)) THEN Strip(Tail(s))
    ELSE IF IsBlank(s[Len(s)]) THEN Strip(SubSeq(s, 1, Len(s) - 1))
    ELSE s

\* what the operator may type at the prompt
Answers == { <<"y">>, <<"Y">>, <<" ", "y", " ">>, <<"n">>, <<>>,
             <<"y", "e", "s">>, <<"y", " ", "y">> }

EndOfInput == <<"E", "O", "F">>

NoResponse == [asked |-> FALSE, text |-> <<>>]

\* every answer is taken as a yes
Accepted_Always(typed) == TRUE

\* response = input(...).strip().lower(); response != 'y' aborts
Accepted(typed) == Lower(Strip(typed)) = <<"y">>

MainInit ==
    /\ file_count \in FileCounts
    /\ extdb \in BOOLEAN
    /\ json \in BOOLEAN
    /\ mpc = "decide"
    /\ mode = "undecided"
    /\ printed = <<>>
    /\ produced = <<>>
    /\ status = -1
    /\ response = NoResponse

\* main(): the mode decision and the warning of the database branch
DecideMode ==
    /\ mpc = "decide"
    /\ IF UseDatabase(file_count, extdb, json)
       THEN /\ mode' = "database"
            /\ printed' = IF json THEN Append(printed, "json_flag_ignored")
                          ELSE printed
            /\ mpc' = "db_banner"
       ELSE /\ mode' = "json"
            /\ mpc' = "json_banner"
            /\ UNCHANGED printed
    /\ UNCHANGED <<file_count, extdb, json, produced, status, response>>
    /\ UNCHANGED <<dataVars, scanVars, viewVars, storeVars>>

\* run_json_mode: the banner and the large-dataset warning (force_json is
\* args.json)
JsonBanner ==
    /\ mpc = "json_banner"
    /\ IF file_count > FILE_COUNT_THRESHOLD /\ json
       THEN /\ printed' = printed \o <<"json_mode", "large_dataset_warning">>
            /\ mpc' = "confirm"
       ELSE /\ printed' = Append(printed, "json_mode")
            /\ mpc' = "build_tree"
    /\ UNCHANGED <<file_count, extdb, json, mode, produced, status, response>>
    /\ UNCHANGED <<dataVars, scanVars, viewVars, storeVars>>

\* run_json_mode: input("Continue anyway? (y/n): ").strip().lower(); at end of
\* input, input() raises EOFError, which nothing catches
JsonConfirm ==
    /\ mpc = "confirm"
    /\ \E typed \in Answers \cup {EndOfInput} :
          /\ response' = [asked |-> TRUE, text |-> typed]
          /\ IF typed = EndOfInput
             THEN /\ status' = 1
                  /\ mpc' = "exit"
                  /\ UNCHANGED printed
             ELSE IF ~Accepted(typed)
             THEN /\ printed' = Append(printed, "aborted")
                  /\ status' = 0
                  /\ mpc' = "exit"
             ELSE /\ mpc' = "build_tree"
                  /\ UNCHANGED <<printed, status>>
    /\ UNCHANGED <<file_count, extdb, json, mode, produced>>
    /\ UNCHANGED <<dataVars, scanVars, viewVars, storeVars>>

\* run_json_mode: tree_builder.build_tree(scan_result.files_data)
JsonBuildTree ==
    /\ mpc = "build_tree"
    /\ produced' = Append(produced, "directory_tree")
    /\ mpc' = "generate"
    /\ UNCHANGED <<file_count, extdb, json, mode, printed, status, response>>
    /\ UNCHANGED <<dataVars, scanVars, viewVars, storeVars>>

\* run_json_mode: generator.generate(...), the summary, and the return to main
JsonGenerate ==
    /\ mpc = "generate"
    /\ produced' = Append(produced, "html_report")
    /\ printed' = Append(printed, "summary")
    /\ status' = 0
    /\ mpc' = "exit"
    /\ UNCHANGED <<file_count, extdb, json, mode, response>>
    /\ UNCHANGED <<dataVars, scanVars, viewVars, storeVars>>

\* run_database_mode: the banner with its reason (forced is args.extdb)
DbBanner ==
    /\ mpc = "db_banner"
    /\ printed' = printed \o
          <<"database_mode",
            IF extdb THEN "reason_extdb_flag" ELSE "reason_count_over_200000">>
    /\ mpc' = "mkdirs"
    /\ UNCHANGED <<file_count, extdb, json, mode, produced, status, response>>
    /\ UNCHANGED <<dataVars, scanVars, viewVars, storeVars>>

\* run_database_mode: data/, macOS/ and Windows/ are created
DbMkdirs ==
    /\ mpc = "mkdirs"
    /\ produced' = Append(produced, "folders")
    /\ mpc' = "create_database"
    /\ UNCHANGED <<file_count, extdb, json, mode, printed, status, response>>
    /\ UNCHANGED <<dataVars, scanVars, viewVars, storeVars>>

\* run_database_mode: db_manager.create_database(...) has returned
DbCreateDatabase ==
    /\ mpc = "create_database"
    /\ produced' = Append(produced, "database")
    /\ mpc' = "viewer"
    /\ UNCHANGED <<file_count, extdb, json, mode, printed, status, response>>
    /\ UNCHANGED <<dataVars, scanVars, viewVars, storeVars>>

\* run_database_mode: DbGenerator().generate(...)
DbGenerateViewer ==
    /\ mpc = "viewer"
    /\ produced' = Append(produced, "html_viewer")
    /\ mpc' = "scripts"
    /\ UNCHANGED <<file_count, extdb, json, mode, printed, status, response>>
    /\ UNCHANGED <<dataVars, scanVars, viewVars, storeVars>>

\* run_database_mode: the server script, the launchers, the summary
DbGenerateScripts ==
    /\ mpc = "scripts"
    /\ produced' = produced \o <<"server_script", "launchers">>
    /\ printed' = Append(printed, "summary")
    /\ status' = 0
    /\ mpc' = "exit"
    /\ UNCHANGED <<file_count, extdb, json, mode, response>>
    /\ UNCHANGED <<dataVars, scanVars, viewVars, storeVars>>

MainNext ==
    \/ DecideMode
    \/ JsonBanner
    \/ JsonConfirm
    \/ JsonBuildTree
    \/ JsonGenerate
    \/ DbBanner
    \/ DbMkdirs
    \/ DbCreateDatabase
    \/ DbGenerateViewer
    \/ DbGenerateScripts

-----------------------------------------------------------------------------
(* Claims about the mode decision *)

\* C10: relational mode if force_relational is set; otherwise relational mode
\* if file_count is above the threshold and force_embedded is not set;
\* otherwise embedded mode. With both flags set the mode is relational and the
\* warning that the embedded flag is ignored has been printed.
C10_ModeDecision ==
    mode # "undecided" =>
        /\ mode = IF extdb THEN "database"
                  ELSE IF file_count > FILE_COUNT_THRESHOLD /\ ~json THEN "database"
                  ELSE "json"
        /\ (extdb /\ json) =>
              /\ mode = "database"
              /\ \E i \in 1..Len(printed) : printed[i] = "json_flag_ignored"

\* C10 witness: both flags set on a small scan: the decision has chosen the
\* database mode and printed the warning.
C10_Witness ==
    /\ mode = "database"
    /\ extdb /\ json
    /\ file_count < FILE_COUNT_THRESHOLD
    /\ printed = <<"json_flag_ignored">>

\* C11: embedded mode above the threshold: the warning is shown and the
\* operator is asked before anything is produced; the tree and the report exist
\* only after the answer 'y' (as the prompt reads it: blanks stripped, lower
\* case); any other answer ends the run with nothing produced. At or below the
\* threshold nobody is asked.
C11_ConfirmationGate ==
    /\ (mode = "json" /\ file_count > FILE_COUNT_THRESHOLD) =>
          /\ response.asked =>
                \E i \in 1..Len(printed) : printed[i] = "large_dataset_warning"
          /\ produced # <<>> =>
                /\ response.asked
                /\ Lower(Strip(response.text)) = <<"y">>
          /\ (response.asked /\ Lower(Strip(response.text)) # <<"y">>) =>
                /\ produced = <<>>
                /\ mpc = "exit"
          /\ mpc \in {"build_tree", "generate", "exit"} => response.asked
    /\ file_count <= FILE_COUNT_THRESHOLD => ~response.asked

\* C11 witness: 250000 files with --json, the operator typed "Y": the report
\* has been written after the warning.
C11_Witness ==
    /\ mode = "json" /\ file_count = 250000
    /\ response = [asked |-> TRUE, text |-> <<"Y">>]
    /\ produced = <<"directory_tree", "html_report">>

\* the same run with the answer "n": aborted, nothing produced
C11_WitnessAbort ==
    /\ mode = "json" /\ file_count = 250000
    /\ response = [asked |-> TRUE, text |-> <<"n">>]
    /\ produced = <<>> /\ status = 0 /\ mpc = "exit"

\* the rule of the program's help text: JSON below 200,000 files, database
\* from 200,000 files on
DOCUMENTED_THRESHOLD == 200000

\* C12: with no flag given, the mode is the documented one (embedded below
\* 200,000 files, database from 200,000 on), and the printed reason "file
\* count > 200,000" is true whenever it is printed.
C12_DocumentedModeRule ==
    /\ (mode # "undecided" /\ ~extdb /\ ~json) =>
          mode = IF file_count < DOCUMENTED_THRESHOLD THEN "json" ELSE "database"
    /\ (\E i \in 1..Len(printed) : printed[i] = "reason_count_over_200000") =>
          file_count > DOCUMENTED_THRESHOLD

-----------------------------------------------------------------------------
(* Claims about the folder nodes of build_tree *)

Has(seq, x) == \E i \in 1..Len(seq) : seq[i] = x

SegmentNames == { <<"a">>, <<"b">>, <<"A">> }

MaxDepth == 3

\* every sequence of segments a folder of the bounded inputs could have
CandidateDirs == UNION { [1..n -> SegmentNames] : n \in 1..MaxDepth }

\* the directory paths named by the records: the proper prefixes of their parts
DirPrefixes(records) ==
    UNION { { SubSeq(PathParts(records[k].relative_path), 1, n) :
                n \in 1..(Len(PathParts(records[k].relative_path)) - 1) } :
            k \in 1..Len(records) }

\* the node is kept: same name and path, counts not lowered, direct files and
\* children still there
KeepsNode(old, new) ==
    /\ new # Null
    /\ new.name = old.name
    /\ new.path = old.path
    /\ new.file_count >= old.file_count
    /\ new.total_size >= old.total_size
    /\ IsPrefix(old.files, new.files)
    /\ DOMAIN old.children \subseteq DOMAIN new.children
    /\ IsPrefix(old.keys, new.keys)

FolderNodesMatchPrefixes ==
    \A p \in CandidateDirs :
        LET node == WalkParts(tree, p)
        IN  IF p \in DirPrefixes(SubSeq(input, 1, idx))
            THEN /\ node # Null
                 /\ node.path = JoinWith(p, SLASH)
                 /\ node.name = p[Len(p)]
                 /\ Len(node.keys) = Cardinality(DOMAIN node.children)
                 /\ { node.keys[i] : i \in 1..Len(node.keys) } = DOMAIN node.children
            ELSE node = Null

NodesAreKept ==
    \A p \in CandidateDirs \cup { <<>> } :
        WalkParts(tree, p) # Null => KeepsNode(WalkParts(tree, p), WalkParts(tree', p))

\* C26: after every iteration of build_tree the folder nodes are exactly the
\* directory paths that are proper prefixes of a processed record's path,
\* one node each, reached from the root along its segments, with path the
\* segments joined and name the last segment; an iteration never replaces a
\* node that exists nor lowers its counts or drops its files or children.
C26_LazyFolders == []FolderNodesMatchPrefixes /\ [][NodesAreKept]_vars

\* C26 witness: build_tree has returned and folder a/b, created by its first
\* file, holds two direct files.
C26_Witness ==
    /\ dpc # "tree"
    /\ WalkParts(tree, << <<"a">>, <<"b">> >>) # Null
    /\ Len(WalkParts(tree, << <<"a">>, <<"b">> >>).files) = 2
    /\ tree.children[<<"a">>].keys = << <<"b">> >>

\* the node for the parent directory of a record
ParentNode(f) ==
    LET parts == PathParts(f.relative_path)
    IN  WalkParts(tree, SubSeq(parts, 1, Len(parts) - 1))

\* C28: the directory the scanner wrote into a record is the path of the
\* tree node that lists the record, '' for a file directly under the root;
\* so `WHERE directory = ''` selects exactly the root's direct files and the
\* root's child-folder query names no folder for the root itself.
C28_DirectoryNamesNode ==
    dpc \in {"ready", "queried"} =>
        /\ \A k \in 1..Len(input) :
              /\ ParentNode(input[k]) # Null
              /\ Has(ParentNode(input[k]).files, input[k])
              /\ input[k].directory = ParentNode(input[k]).path
        /\ Len(SelectSeq(db_files, LAMBDA r : IsDirectRow(r, <<>>))) = Len(tree.files)
        /\ ~Has(RootChildFolders(db_files), <<DOT>>)

\* the segments of the directory a record lies in
ParentParts(f) ==
    SubSeq(PathParts(f.relative_path), 1, Len(PathParts(f.relative_path)) - 1)

\* the records processed so far
Processed == SubSeq(input, 1, idx)

\* the entries of all direct file lists: <<folder, position>>
ListedEntries ==
    { e \in (CandidateDirs \cup { <<>> }) \X (1..MaxFiles) :
        /\ WalkParts(tree, e[1]) # Null
        /\ e[2] <= Len(WalkParts(tree, e[1]).files) }

\* C29: after every iteration of build_tree each node's direct file list
\* holds exactly the processed records whose parent directory is the node,
\* in input order; so every record is listed once, in its parent's node
\* and in no other, and the lists together have as many entries as there
\* are records.
C29_EachRecordListedOnce ==
    /\ \A p \in CandidateDirs \cup { <<>> } :
          WalkParts(tree, p) # Null =>
              WalkParts(tree, p).files =
                  SelectSeq(Processed, LAMBDA f : ParentParts(f) = p)
    /\ \A k \in 1..idx : ParentNode(input[k]) # Null
    /\ Cardinality(ListedEntries) = idx
    /\ dpc # "tree" => idx = Len(input)

\* C29 witness: build_tree has returned for three records, one directly
\* under the root between two of folder a/b, which lists its two in input
\* order.
C29_Witness ==
    /\ dpc # "tree"
    /\ Len(input) = 3
    /\ ParentParts(input[1]) = << <<"a">>, <<"b">> >>
    /\ ParentParts(input[2]) = <<>>
    /\ ParentParts(input[3]) = << <<"a">>, <<"b">> >>
    /\ tree.files = <<input[2]>>
    /\ WalkParts(tree, << <<"a">>, <<"b">> >>).files = <<input[1], input[3]>>
    /\ WalkParts(tree, << <<"a">> >>).files = <<>>


-----------------------------------------------------------------------------
(* run_database_mode calling create_database, with failures *)

\* batch sizes small enough for the bounded inputs to span several batches,
\* next to the configured one
BatchSizes == {1, 2, BATCH_SIZE}

\* the statements of _create_schema in the order they are executed
CREATE_ORDER ==
    << "files", "metadata", "extension_stats",
       "idx_extension", "idx_size", "idx_modified", "idx_created", "idx_name",
       "idx_directory", "idx_directory_name", "idx_name_lower",
       "idx_directory_lower" >>

\* the file after the first k statements of _create_schema: each CREATE is
\* committed when it is executed, no row exists yet
PartialSchema(k) ==
    IF k = 0 THEN Absent
    ELSE [EmptyStore EXCEPT
             !.schema = [ tables  |-> { CREATE_ORDER[j] : j \in 1..MinOf(k, 3) },
                          indexes |-> { CREATE_ORDER[j] : j \in 4..k } ]]

\* an exception leaves create_database with every insert written to the file
Rollback_Flush(file, connection) ==
    [file EXCEPT !.files = connection.files,
                 !.metadata = connection.metadata,
                 !.extension_stats = connection.extension_stats]

\* an exception leaves create_database before conn.commit(): the connection is
\* dropped and its open transaction, every INSERT so far, is rolled back
Rollback(file, connection) == file

\* run_database_mode has made the folders and is about to call
\* create_database(files_data, ...)
LoadInit ==
    /\ input \in ViewInputs
    /\ idx = 0
    /\ tree = EmptyTree
    /\ db_files = <<>>
    /\ dpc = "idle"
    /\ q_path = <<>>
    /\ q_inline = Null
    /\ q_db = Null
    /\ store \in PriorStores
    /\ conn = NoConnection
    /\ cpc = "idle"
    /\ runs = 0
    /\ removed = 0
    /\ db_error = "none"
    /\ batch_size \in BatchSizes
    /\ file_count = Len(input)
    /\ extdb = TRUE
    /\ json = FALSE
    /\ mpc = "create_database"
    /\ mode = "database"
    /\ printed = <<"database_mode", "reason_extdb_flag">>
    /\ produced = <<"folders">>
    /\ status = -1
    /\ response = NoResponse

\* db_manager.create_database(...) is entered
LoadCall ==
    /\ mpc = "create_database"
    /\ runs = 0
    /\ CreateRemove

\* a statement of create_database raises (disk full, I/O error, interrupt):
\* nothing catches it in create_database, run_database_mode or main
CreateFails ==
    /\ cpc \in {"schema", "metadata", "extension_stats", "files"}
    /\ IF cpc = "schema"
       THEN /\ \E k \in 0..(Len(CREATE_ORDER) - 1) : store' = PartialSchema(k)
            /\ conn' = conn
       ELSE /\ store' = Rollback(store, conn)
            /\ conn' = [conn EXCEPT !.open = FALSE]
    /\ db_error' = "raised"
    /\ cpc' = "idle"
    /\ status' = 1
    /\ mpc' = "exit"
    /\ UNCHANGED <<runs, removed, batch_size>>
    /\ UNCHANGED <<file_count, extdb, json, mode, printed, produced, response>>
    /\ UNCHANGED <<dataVars, scanVars, viewVars>>

\* create_database has returned db_size to run_database_mode
LoadReturn ==
    /\ cpc = "idle"
    /\ runs = 1
    /\ DbCreateDatabase

LoadNext ==
    \/ LoadCall
    \/ CreateSchema
    \/ InsertMetadata
    \/ InsertExtensionStats
    \/ InsertFilesStep
    \/ CommitAndClose
    \/ CreateFails
    \/ LoadReturn
    \/ DbGenerateViewer
    \/ DbGenerateScripts

-----------------------------------------------------------------------------
(* Claims about the bulk load *)

NoRows(file) ==
    \/ ~file.exists
    \/ /\ file.files = <<>>
       /\ file.metadata = <<>>
       /\ file.extension_stats = <<>>

FullyLoaded(file) ==
    /\ file.exists
    /\ file.schema = SCHEMA
    /\ file.files = RowsOfOneRun
    /\ file.metadata # <<>>
    /\ file.metadata.total_files = Str(Len(input))
    /\ file.extension_stats = StatsOf(input)

\* C21: once create_database has been entered, whether it is still running,
\* has returned or has raised during the schema, the metadata, the
\* extension statistics or any batch of the files, the file at the target
\* path holds either no files, metadata or extension_stats row at all, or
\* all rows of the run; after an exception it holds none.
C21_AllOrNothing ==
    /\ (cpc # "idle" \/ runs >= 1 \/ db_error # "none") =>
          (NoRows(store) \/ FullyLoaded(store))
    /\ db_error # "none" => NoRows(store)
    /\ FullyLoaded(store) /\ ~NoRows(store) => runs >= 1

\* C21 witness: the load raised after some batches of the files, not all,
\* had been inserted, and the file at the path holds the schema and no row.
C21_Witness ==
    /\ db_error = "raised"
    /\ conn # NoConnection
    /\ 0 < Len(conn.files) /\ Len(conn.files) < Len(input)
    /\ store = EmptyStore

\* the fields _insert_files binds, equal in row and record
SameFields(row, f) ==
    /\ row.name = f.name
    /\ row.relative_path = f.relative_path
    /\ row.directory = f.directory
    /\ row.size_bytes = f.size_bytes
    /\ row.extension = f.extension

\* the k-th row has the k-th smallest id and the fields of the k-th record
InInputOrder(rows) ==
    /\ \A k \in 1..Len(rows) : k <= Len(input) /\ SameFields(rows[k], input[k])
    /\ \A k, l \in 1..Len(rows) : k < l => rows[k].id < rows[l].id

\* C24: whatever the batch size and the number of records, _insert_files
\* leaves one row per record in the files table, with the record's field
\* values and ids ascending in input order; no record is skipped or inserted
\* twice where one batch ends and the next begins.
C24_BatchingUnobservable ==
    /\ cpc = "files" =>
          /\ InInputOrder(conn.files)
          /\ Len(conn.files) = MinOf(Len(input),
                 batch_size * ((Len(conn.files) + batch_size - 1) \div batch_size))
    /\ runs >= 1 =>
          /\ Len(store.files) = Len(input)
          /\ InInputOrder(store.files)

\* C24 witness: three records went in with batch size 2, a full batch and a
\* partial one, and the table holds them with ids 1, 2, 3.
C24_Witness ==
    /\ runs = 1
    /\ batch_size = 2
    /\ Len(input) = 3
    /\ Len(store.files) = 3
    /\ \A k \in 1..3 : store.files[k].id = k /\ SameFields(store.files[k], input[k])

\* C24 witnesses for the other shapes: no record; fewer records than one
\* batch; a whole number of batches.
C24_WitnessShapes ==
    /\ runs = 1
    /\ \/ Len(input) = 0 /\ store.files = <<>>
       \/ Len(input) = 1 /\ batch_size = 2 /\ Len(store.files) = 1
       \/ Len(input) = 2 /\ batch_size = 1 /\ Len(store.files) = 2

IndexedColumns(file) == { INDEX_ON[n] : n \in file.schema.indexes }

RequiredIndexes ==
    { <<"extension">>, <<"size_bytes">>, <<"modified">>, <<"created">>,
      <<"name">>, <<"directory">>, <<"directory", "name">>,
      <<"LOWER(name)">>, <<"LOWER(directory)">> }

SchemaReady(file) ==
    /\ file.exists
    /\ file.schema.tables = {"files", "metadata", "extension_stats"}
    /\ IndexedColumns(file) = RequiredIndexes

\* C25: the three tables and the nine indexes exist before the first row
\* is inserted; rows become durable only by the commit that follows the
\* metadata, the extension statistics and all file rows, after which the
\* connection is closed; the viewer, the server script and the launchers
\* are generated only after create_database has returned, so nothing that
\* reads the store exists before its creation is complete.
C25_CreationOrder ==
    /\ cpc \in {"metadata", "extension_stats", "files"} =>
          /\ SchemaReady(store)
          /\ NoRows(store)
          /\ conn.open
    /\ runs >= 1 =>
          /\ SchemaReady(store)
          /\ store.metadata # <<>>
          /\ DOMAIN store.extension_stats =
                { input[k].extension : k \in 1..Len(input) }
          /\ Len(store.files) = Len(input)
          /\ conn = NoConnection
    /\ (Has(produced, "database") \/ Has(produced, "html_viewer")
          \/ Has(produced, "server_script") \/ Has(produced, "launchers")) =>
          /\ runs >= 1
          /\ cpc = "idle"
          /\ db_error = "none"

\* C25 witness: run_database_mode has finished over three records: the
\* store was created first, then the viewer, the server script, the launchers.
C25_Witness ==
    /\ mpc = "exit"
    /\ status = 0
    /\ produced = <<"folders", "database", "html_viewer", "server_script",
                    "launchers">>
    /\ Len(store.files) = 3
    /\ SchemaReady(store)

\* int(text) for the decimal text of a non-negative int
RECURSIVE ParseInt(_)
ParseInt(text) ==
    IF text = <<>> THEN 0
    ELSE 10 * ParseInt(SubSeq(text, 1, Len(text) - 1))
         + (CHOOSE d \in 0..9 : DIGITS[d + 1] = text[Len(text)])

\* the records carrying extension e
OfExtension(e) == SelectSeq(input, LAMBDA f : f.extension = e)

\* C30: after create_database has returned, metadata holds exactly the keys
\* total_files, total_size, root_path and generated_date, total_files is
\* the number of rows of files and total_size the total passed in, and
\* extension_stats holds one row for each extension of the statistics, with
\* its count and its size, and no other row.
C30_StoreAggregates ==
    (cpc = "idle" /\ runs >= 1) =>
        /\ DOMAIN store.metadata =
              {"total_files", "total_size", "root_path", "generated_date"}
        /\ ParseInt(store.metadata.total_files) = Len(store.files)
        /\ ParseInt(store.metadata.total_size) = SumSizes(input)
        /\ store.metadata.root_path = ROOT_PATH
        /\ DOMAIN store.extension_stats =
              { input[k].extension : k \in 1..Len(input) }
        /\ \A e \in DOMAIN store.extension_stats :
              /\ store.extension_stats[e].count = Len(OfExtension(e))
              /\ store.extension_stats[e].size = SumSizes(OfExtension(e))

\* C30 witness: a store over three records of two extensions has been
\* created: total_files '3', two extension_stats rows.
C30_Witness ==
    /\ cpc = "idle" /\ runs = 1
    /\ Len(store.files) = 3
    /\ store.metadata.total_files = <<"3">>
    /\ Cardinality(DOMAIN store.extension_stats) = 2
    /\ \E e \in DOMAIN store.extension_stats : store.extension_stats[e].count = 2




-----------------------------------------------------------------------------
(* Specifications *)

DataIdle ==
    /\ input = <<>>
    /\ idx = 0
    /\ tree = EmptyTree
    /\ db_files = <<>>
    /\ dpc = "idle"
    /\ q_path = <<>>
    /\ q_inline = Null
    /\ q_db = Null

ScanIdle ==
    /\ fs = [root |-> "dir", dirs |-> [d \in ScanDirs |-> "absent"],
             files |-> [sl \in ScanSlots |-> NoFile]]
    /\ caller = "lib"
    /\ spc = "idle"
    /\ walk = [stack |-> <<>>, dir |-> RootDir, files |-> <<>>]
    /\ files_data = <<>>
    /\ total_size = 0
    /\ error_count = 0
    /\ extension_stats = <<>>
    /\ result = Null
    /\ raised = "none"
    /\ exit_code = -1
    /\ artifacts = {}
    /\ history = <<>>

MainIdle ==
    /\ file_count = 0
    /\ extdb = FALSE
    /\ json = FALSE
    /\ mpc = "idle"
    /\ mode = "undecided"
    /\ printed = <<>>
    /\ produced = <<>>
    /\ status = -1
    /\ response = NoResponse

ViewIdle ==
    /\ call = NoCall
    /\ ret_inline = Null
    /\ ret_db = Null

StoreIdle ==
    /\ store = Absent
    /\ conn = NoConnection
    /\ cpc = "idle"
    /\ runs = 0
    /\ removed = 0
    /\ db_error = "none"
    /\ batch_size = BATCH_SIZE

Init == DataInit /\ ScanIdle /\ MainIdle /\ ViewIdle /\ StoreIdle

InitScan == ScanInit /\ DataIdle /\ MainIdle /\ ViewIdle /\ StoreIdle

InitRescan == RescanInit /\ DataIdle /\ MainIdle /\ ViewIdle /\ StoreIdle

InitMain == MainInit /\ DataIdle /\ ScanIdle /\ ViewIdle /\ StoreIdle

InitView == ViewInit /\ ScanIdle /\ MainIdle /\ StoreIdle

InitDb == DbInit /\ ScanIdle /\ MainIdle /\ ViewIdle

InitLoad == LoadInit /\ ScanIdle /\ ViewIdle

\* one ScanResult, both backends
Spec == Init /\ [][DataNext]_vars

\* the scanner, called by main or directly
SpecScan == InitScan /\ [][ScanNext]_vars

\* one DirectoryScanner whose scan() is called MaxScans times, the filesystem
\* unchanged
SpecRescan == InitRescan /\ [][RescanNext]_vars

\* main after a scan that found file_count files
SpecMain == InitMain /\ [][MainNext]_vars

\* the viewer's DataService, both backends over the same archive
SpecView == InitView /\ [][ViewNext]_vars

\* create_database, called again and again with the same ScanResult and path
SpecDb == InitDb /\ [][DbNext]_vars

\* one run of run_database_mode over a ScanResult, create_database may raise
SpecLoad == InitLoad /\ [][LoadNext]_vars

====
